---- MODULE Spec2Model ----
(***************************************************************************)
(* Model of the deterministic semantic query pipeline of smartbi:          *)
(*   SemanticTokenMatcher.match  -> merge_llm_selection_into_plan          *)
(*   -> validate_semantic_plan   -> compile_sql_from_semantic_plan         *)
(* as driven by the chat loop in app/main.py.                              *)
(*                                                                         *)
(* Text is modelled as a sequence of lexical units (TLA+ strings): a       *)
(* canonical name "sales.revenue" is <<"sales", ".", "revenue">>, a blank   *)
(* is the unit " ", the empty text is <<>>.  str.strip(), str.lower(),     *)
(* str.split(".", 1), "." in s and + are computed on these sequences.      *)
(***************************************************************************)
EXTENDS Integers, Sequences, FiniteSets, TLC

VARIABLES
    pc,               \* position of the caller (chat loop or direct call)
    semantic_layer,   \* the catalog handed to the functions
    governance_limits,
    features,         \* Step B output (extracted_features)
    llm_selection,    \* proposer output handed to merge
    token_hits,       \* Step C output: matches, blocked_matches
    enhanced_plan,    \* Step D output
    validation,       \* Step E output
    compiled,         \* Step F outcome: raised error kind and SQL text
    executed,         \* outcome of SQLQueryExecutor.run and the statement sent
    settings,         \* Settings: whether db_host, db_user and db_name are set
    database,         \* the rows of the calendar table and of the fact table
    query_result,     \* the rows the database returned for the statement sent
    retrieval,        \* what the embedding and reranker calls of match answered
    requests,         \* the requests in flight when several callers share the catalog
    calls             \* the calls made on the same inputs, with what each returned

vars == <<pc, semantic_layer, governance_limits, features, llm_selection,
          token_hits, enhanced_plan, validation, compiled, executed, settings,
          database, query_result, retrieval, requests, calls>>

----------------------------------------------------------------------------
(* Bounds of the model *)

\* longest selected_metrics list of a plan handed directly to validate / compile
MaxMetrics == 1

----------------------------------------------------------------------------
(* Text helpers *)

Range(s) == {s[i] : i \in DOMAIN s}

\* sequences over S of length 0..n
SeqUpTo(S, n) == UNION {[1..k -> S] : k \in 0..n}

\* str.strip(): drop leading and trailing blanks
RECURSIVE LStrip(_)
LStrip(s) == IF s # <<>> /\ Head(s) = " " THEN LStrip(Tail(s)) ELSE s

RECURSIVE RStrip(_)
RStrip(s) ==
    IF s # <<>> /\ s[Len(s)] = " " THEN RStrip(SubSeq(s, 1, Len(s) - 1)) ELSE s

Strip(s) == RStrip(LStrip(s))

\* str.lower() on one unit: the units that have an upper-case form
LowerUnit(u) ==
    CASE u = "Revenue" -> "revenue"
      [] u = "BETWEEN" -> "between"
      [] u = "IN" -> "in"
      [] u = "IS" -> "is"
      [] u = "NULL" -> "null"
      [] u = "Region" -> "region"
      [] u = "AND" -> "and"
      [] u = "DROP" -> "drop"
      [] u = "LIMIT" -> "limit"
      [] u = "SELECT " -> "select "
      [] u = "Month" -> "month"
      [] u = "BIZ_DATE" -> "biz_date"
      [] u = "DATE" -> "date"
      [] u = "REGION" -> "region"
      [] u = "AREA" -> "area"
      [] u = "SEGMENT" -> "segment"
      [] u = "ID_NO" -> "id_no"
      [] u = "ID" -> "id"
      [] u = "REVENUE" -> "revenue"
      [] u = "INCOME" -> "income"
      [] u = "ORDERS" -> "orders"
      [] u = "CHANNEL" -> "channel"
      [] u = "TXN_DATE" -> "txn_date"
      [] u = "DEPOSIT_END_BALANCE" -> "deposit_end_balance"
      [] u = "BALANCE" -> "balance"
      [] u = "RATE" -> "rate"
      [] u = "CASE_CNT" -> "case_cnt"
      [] u = "MONTH" -> "month"
      [] u = "SUM" -> "sum"
      [] OTHER -> u

Lower(s) == [i \in DOMAIN s |-> LowerUnit(s[i])]

\* str.upper() on one unit: the catalog's names and synonyms
UpperUnit(u) ==
    CASE u = "biz_date" -> "BIZ_DATE"
      [] u = "date" -> "DATE"
      [] u = "region" -> "REGION"
      [] u = "area" -> "AREA"
      [] u = "segment" -> "SEGMENT"
      [] u = "id_no" -> "ID_NO"
      [] u = "id" -> "ID"
      [] u = "revenue" -> "REVENUE"
      [] u = "income" -> "INCOME"
      [] u = "orders" -> "ORDERS"
      [] u = "channel" -> "CHANNEL"
      [] u = "txn_date" -> "TXN_DATE"
      [] u = "deposit_end_balance" -> "DEPOSIT_END_BALANCE"
      [] u = "balance" -> "BALANCE"
      [] u = "rate" -> "RATE"
      [] u = "case_cnt" -> "CASE_CNT"
      [] u = "month" -> "MONTH"
      [] OTHER -> u

Upper(s) == [i \in DOMAIN s |-> UpperUnit(s[i])]

\* str.replace(a, b) for one-unit a and b
Replace(s, a, b) == [i \in DOMAIN s |-> IF s[i] = a THEN b ELSE s[i]]

\* "." in s
HasDot(s) == "." \in Range(s)

\* index of the first unit u in s, 0 when absent
FirstIndex(s, u) ==
    IF u \in Range(s) THEN CHOOSE i \in DOMAIN s : s[i] = u /\ \A j \in 1..(i - 1) : s[j] # u
    ELSE 0

\* s.split(".", 1)[0]
Owner(s) == IF HasDot(s) THEN SubSeq(s, 1, FirstIndex(s, ".") - 1) ELSE s

\* f"{a}.{b}"
Dotted(a, b) == a \o <<".">> \o b

\* _unique_keep_order
RECURSIVE UniqueFrom(_, _)
UniqueFrom(values, out) ==
    IF values = <<>> THEN out
    ELSE UniqueFrom(Tail(values),
                    IF Head(values) \in Range(out) THEN out ELSE Append(out, Head(values)))

_unique_keep_order(values) == UniqueFrom(values, <<>>)

\* concatenation of a sequence of texts with a separator: sep.join(parts)
RECURSIVE Join(_, _)
Join(parts, sep) ==
    IF parts = <<>> THEN <<>>
    ELSE IF Len(parts) = 1 THEN parts[1]
         ELSE parts[1] \o sep \o Join(Tail(parts), sep)

\* concatenation of a sequence of sequences
RECURSIVE Flatten(_)
Flatten(ss) == IF ss = <<>> THEN <<>> ELSE Head(ss) \o Flatten(Tail(ss))

\* the lines of a text: text.split("\n")
RECURSIVE SplitLines(_)
SplitLines(text) ==
    IF "\n" \notin Range(text) THEN <<text>>
    ELSE LET i == FirstIndex(text, "\n")
         IN <<SubSeq(text, 1, i - 1)>> \o SplitLines(SubSeq(text, i + 1, Len(text)))

----------------------------------------------------------------------------
(* The semantic layer (catalog): app/semantics/*.yaml as loaded by         *)
(* load_semantic_layer.  Python dicts keep insertion order, so entities    *)
(* and datasets are sequences of named records.                            *)

T(u) == <<u>>

Field(name, expr, synonyms) == [name |-> name, expr |-> expr, synonyms |-> synonyms]

Metric(name, expr, type, synonyms) ==
    [name |-> name, expr |-> expr, type |-> type, synonyms |-> synonyms]

TimeDim(name, expr, grain, synonyms) ==
    [name |-> name, expr |-> expr, grain |-> grain, synonyms |-> synonyms]

JoinDef(entity, on) == [entity |-> entity, on |-> on]

\* {} as a dataset definition: datasets.get(name, {}) or {}
EmptyDataset ==
    [name |-> <<>>, from |-> <<>>, metrics |-> <<>>, dimensions |-> <<>>,
     time_dimensions |-> <<>>, joins |-> <<>>]

\* {} as an entity definition
EmptyEntity == [name |-> <<>>, table |-> <<>>, fields |-> <<>>, sensitive_fields |-> <<>>]

Entities ==
    << [name |-> T("calendar"), table |-> T("dim_calendar"),
        fields |-> << Field(T("biz_date"), T("dim_calendar.biz_date"), <<T("date")>>) >>,
        sensitive_fields |-> <<>>],
       [name |-> T("branch"), table |-> T("dim_branch"),
        fields |-> << Field(T("region"), T("dim_branch.region"), <<T("area")>>) >>,
        sensitive_fields |-> <<>>],
       [name |-> T("customer"), table |-> T("dim_customer"),
        fields |-> << Field(T("segment"), T("dim_customer.segment"), <<>>) >>,
        sensitive_fields |-> << Field(T("id_no"), T("dim_customer.id_no"), <<T("id")>>) >>] >>

Datasets ==
    << [name |-> T("sales"), from |-> T("fact_sales as s"),
        metrics |-> << Metric(T("revenue"), T("s.revenue"), T("sum"), <<T("income")>>),
                       Metric(T("orders"), <<>>, T("count"), <<>>) >>,
        dimensions |-> << Field(T("channel"), T("s.channel"), <<>>),
                          Field(T("biz_date"), T("s.biz_date"), <<T("date")>>) >>,
        time_dimensions |-> << TimeDim(T("biz_date"), T("s.biz_date"), <<>>, <<T("txn_date")>>) >>,
        joins |-> << JoinDef(T("calendar"), T("s.biz_date = dim_calendar.biz_date")),
                     JoinDef(T("branch"), T("s.branch_id = dim_branch.branch_id")) >>],
       [name |-> T("deposit_balance_daily"), from |-> T("fact_account_balance_daily as bal"),
        metrics |-> << Metric(T("deposit_end_balance"), T("bal.end_balance"), T("sum"),
                              <<T("balance")>>),
                       Metric(T("rate"), T("bal.rate"), <<>>, <<>>) >>,
        dimensions |-> << Field(T("biz_date"), T("bal.biz_date"), <<>>) >>,
        time_dimensions |-> << TimeDim(T("biz_date"), T("bal.biz_date"), <<>>, <<>>) >>,
        joins |-> << JoinDef(T("calendar"), T("bal.biz_date = dim_calendar.biz_date")),
                     JoinDef(T("branch"), T("bal.branch_id = dim_branch.branch_id")) >>],
       [name |-> T("complaints"), from |-> <<>>,
        metrics |-> << Metric(T("case_cnt"), T("c.id"), T("count"), <<>>) >>,
        dimensions |-> <<>>,
        time_dimensions |-> << TimeDim(T("month"), T("c.month_id"), T("month"), <<>>) >>,
        joins |-> <<>>] >>

\* the loaded catalog, and None (semantic_layer omitted by the caller)
Layer == [present |-> TRUE, entities |-> Entities, datasets |-> Datasets]

NoLayer == [present |-> FALSE, entities |-> <<>>, datasets |-> <<>>]

\* d.get(name, {}) or {} on a sequence of named records
Lookup(defs, name, empty) ==
    IF \E i \in DOMAIN defs : defs[i].name = name
    THEN defs[CHOOSE i \in DOMAIN defs : defs[i].name = name]
    ELSE empty

\* name in d
HasKey(defs, name) == \E i \in DOMAIN defs : defs[i].name = name

----------------------------------------------------------------------------
(* Filter values and filters (the dicts of plan["selected_filters"])       *)

NoneV == [kind |-> "none", s |-> <<>>, n |-> 0, items |-> <<>>]

StrV(s) == [kind |-> "str", s |-> s, n |-> 0, items |-> <<>>]

NumV(n) == [kind |-> "num", s |-> <<>>, n |-> n, items |-> <<>>]

ListV(items) == [kind |-> "list", s |-> <<>>, n |-> 0, items |-> items]

\* a filter dict; an absent key is the empty text (value: None).  is_dict is
\* FALSE for a list entry that is not a dict (e.g. a bare string).
FilterRec(field, op, value, expr, source) ==
    [is_dict |-> TRUE, field |-> field, op |-> op, value |-> value, expr |-> expr,
     source |-> source]

NotADict ==
    [is_dict |-> FALSE, field |-> <<>>, op |-> <<>>, value |-> NoneV, expr |-> <<>>,
     source |-> <<>>]

\* plan.get("time_axis", {}) or {}
NoTimeAxis == [has_time_filter |-> FALSE, start_date |-> <<>>, end_date |-> <<>>]

\* the enhanced plan (a plan without a time_axis key has NoTimeAxis)
Plan(metrics, dimensions, filters, datasets, time_axis) ==
    [selected_metrics |-> metrics, selected_dimensions |-> dimensions,
     selected_filters |-> filters, selected_dataset_candidates |-> datasets,
     rejected_candidates |-> <<>>, needs_clarification |-> FALSE,
     clarification_questions |-> <<>>, time_axis |-> time_axis]

----------------------------------------------------------------------------
(* app/semantic_validator.py *)

\* None is the empty text
_dataset_from_canonical_name(canonical_name) ==
    IF ~HasDot(canonical_name) THEN <<>> ELSE Owner(canonical_name)

RECURSIVE CollectFromNames(_, _, _)
CollectFromNames(names, selected, layer) ==
    IF names = <<>> THEN selected
    ELSE LET dataset == _dataset_from_canonical_name(Head(names))
             skip == \/ dataset = <<>>
                     \/ layer.entities # <<>> /\ HasKey(layer.entities, dataset)
                     \/ layer.datasets # <<>> /\ ~HasKey(layer.datasets, dataset)
                     \/ dataset \in Range(selected)
         IN CollectFromNames(Tail(names), IF skip THEN selected ELSE Append(selected, dataset),
                             layer)

_collect_selected_datasets(plan, layer) ==
    LET candidates == SelectSeq(plan.selected_dataset_candidates, LAMBDA c : c # <<>>)
    IN CollectFromNames(plan.selected_metrics \o plan.selected_dimensions, candidates, layer)

\* the set of join entities of one dataset definition
JoinEntitySet(dataset_def) ==
    {dataset_def.joins[i].entity : i \in DOMAIN dataset_def.joins} \ {<<>>}

\* mutant: a chain of shared join entities counts as a join path
_has_join_path_multi_hop(layer, selected_datasets) ==
    LET sets == [i \in DOMAIN selected_datasets |->
                    JoinEntitySet(Lookup(layer.datasets, selected_datasets[i], EmptyDataset))]
    IN IF \E i \in DOMAIN sets : sets[i] = {} THEN FALSE
       ELSE \A i \in DOMAIN sets :
                Len(sets) > 1 => \E j \in DOMAIN sets : j # i /\ sets[i] \cap sets[j] # {}

_has_join_path(layer, selected_datasets) ==
    LET sets == [i \in DOMAIN selected_datasets |->
                    JoinEntitySet(Lookup(layer.datasets, selected_datasets[i], EmptyDataset))]
    IN IF \E i \in DOMAIN sets : sets[i] = {} THEN FALSE
       ELSE IF sets = <<>> THEN TRUE
       ELSE {e \in sets[1] : \A i \in DOMAIN sets : e \in sets[i]} # {}

\* canonical names f"{owner}.{name}" of the named items of a list
CanonicalNames(owner, items) ==
    {Dotted(owner, Strip(items[i].name)) : i \in {j \in DOMAIN items : Strip(items[j].name) # <<>>}}

\* returns <<metric_set, dimension_set>>
_build_valid_canonical_sets(layer) ==
    << UNION {CanonicalNames(layer.datasets[i].name, layer.datasets[i].metrics) :
                 i \in DOMAIN layer.datasets},
       UNION {CanonicalNames(layer.datasets[i].name, layer.datasets[i].dimensions)
              \cup CanonicalNames(layer.datasets[i].name, layer.datasets[i].time_dimensions) :
                 i \in DOMAIN layer.datasets}
       \cup UNION {CanonicalNames(layer.entities[i].name, layer.entities[i].fields) :
                 i \in DOMAIN layer.entities} >>

_has_compilable_select_item(plan, layer) ==
    LET datasets == plan.selected_dataset_candidates
        dataset_name == IF datasets # <<>> THEN Strip(datasets[1]) ELSE <<>>
        ds == Lookup(layer.datasets, dataset_name, EmptyDataset)
        metric_names == CanonicalNames(dataset_name, ds.metrics)
        dimension_names == CanonicalNames(dataset_name, ds.dimensions)
    IN IF dataset_name = <<>> THEN FALSE
       ELSE \/ \E i \in DOMAIN plan.selected_metrics : plan.selected_metrics[i] \in metric_names
            \/ \E i \in DOMAIN plan.selected_dimensions :
                   plan.selected_dimensions[i] \in dimension_names

ComparisonOps == {T("="), T("!="), T(">"), T(">="), T("<"), T("<=")}

UnaryOps == {<<"is", " ", "null">>, <<"is", " ", "not", " ", "null">>}

\* mutant: the code is appended with every message
_add_error_repeating(res, code, idx) ==
    [res EXCEPT !.error_codes = Append(@, code),
                !.errors = Append(@, <<code, idx>>)]

\* the nested helper _add_error: a code is listed once, every message is kept
_add_error(res, code, idx) ==
    [res EXCEPT !.error_codes = IF code \in Range(@) THEN @ ELSE Append(@, code),
                !.errors = Append(@, <<code, idx>>)]

AddIf(cond, res, code) == IF cond THEN _add_error(res, code, 0) ELSE res

\* mutant: between only rejects a value that is not a list or an empty list
FilterShapeCode_between_nonempty(f) ==
    LET op == Lower(Strip(f.op))
    IN IF ~f.is_dict THEN "INVALID_FILTER_SHAPE"
       ELSE IF op = T("between")
            THEN IF f.value.kind # "list" \/ f.value.items = <<>>
                 THEN "INVALID_FILTER_BETWEEN" ELSE ""
       ELSE IF op \in ComparisonOps
            THEN IF f.value.kind = "none" THEN "INVALID_FILTER_VALUE" ELSE ""
       ELSE IF op = T("in")
            THEN IF f.value.kind # "list" \/ f.value.items = <<>>
                 THEN "INVALID_FILTER_VALUE" ELSE ""
       ELSE IF op \in UnaryOps THEN ""
       ELSE IF Strip(f.expr) = <<>> THEN "INVALID_FILTER_SHAPE" ELSE ""

\* the code one filter contributes in the shape loop, "" for none
FilterShapeCode(f) ==
    LET op == Lower(Strip(f.op))
        has_expr == Strip(f.expr) # <<>>
    IN IF ~f.is_dict THEN "INVALID_FILTER_SHAPE"
       ELSE IF op = T("between")
            THEN IF f.value.kind # "list" \/ Len(f.value.items) # 2
                 THEN "INVALID_FILTER_BETWEEN" ELSE ""
       ELSE IF op \in ComparisonOps
            THEN IF f.value.kind = "none" THEN "INVALID_FILTER_VALUE" ELSE ""
       ELSE IF op = T("in")
            THEN IF f.value.kind # "list" \/ f.value.items = <<>>
                 THEN "INVALID_FILTER_VALUE" ELSE ""
       ELSE IF op \in UnaryOps THEN ""
       ELSE IF ~has_expr THEN "INVALID_FILTER_SHAPE" ELSE ""

RECURSIVE CheckFilterShapes(_, _, _)
CheckFilterShapes(filters, idx, res) ==
    IF idx > Len(filters) THEN res
    ELSE LET code == FilterShapeCode(filters[idx])
         IN CheckFilterShapes(filters, idx + 1,
                              IF code = "" THEN res ELSE _add_error(res, code, idx))

\* mutant: filter fields are not checked against the catalog
InvalidFilterFields_unchecked(filters, valid_dimensions) == <<>>

\* dotted filter fields that are not in valid_dimensions
InvalidFilterFields(filters, valid_dimensions) ==
    SelectSeq(filters,
              LAMBDA f : /\ f.is_dict
                         /\ Strip(f.field) # <<>>
                         /\ HasDot(Strip(f.field))
                         /\ Strip(f.field) \notin valid_dimensions)

\* rule DATASET_MISMATCH
HasForeignSelection(plan, layer) ==
    LET datasets == plan.selected_dataset_candidates
        first_dataset == IF datasets # <<>> THEN datasets[1] ELSE <<>>
        foreign_metrics ==
            SelectSeq(plan.selected_metrics,
                      LAMBDA m : HasDot(m) /\ Owner(m) # first_dataset)
        foreign_dimensions ==
            SelectSeq(plan.selected_dimensions,
                      LAMBDA d : /\ HasDot(d)
                                 /\ Owner(d) # first_dataset
                                 /\ ~HasKey(layer.entities, Owner(d)))
    IN first_dataset # <<>> /\ (foreign_metrics # <<>> \/ foreign_dimensions # <<>>)

\* rules 6..9, evaluated only when a semantic layer is given
ValidateAgainstLayer(plan, layer, res) ==
    LET valid == _build_valid_canonical_sets(layer)
        invalid_metrics == SelectSeq(plan.selected_metrics, LAMBDA m : m \notin valid[1])
        invalid_dimensions == SelectSeq(plan.selected_dimensions, LAMBDA d : d \notin valid[2])
        invalid_filter_fields == InvalidFilterFields(plan.selected_filters, valid[2])
        r6 == AddIf(invalid_metrics # <<>> \/ invalid_dimensions # <<>>
                        \/ invalid_filter_fields # <<>>,
                    res, "INVALID_CANONICAL_REF")
        r7 == AddIf(HasForeignSelection(plan, layer), r6, "DATASET_MISMATCH")
        r8 == CheckFilterShapes(plan.selected_filters, 1, r7)
    IN AddIf(~_has_compilable_select_item(plan, layer), r8, "NO_COMPILABLE_SELECT")

\* rules 3..9 accumulated onto res: ValidateRules without TIME_FILTER_REQUIRED
ValidateRules_without_time_rule(plan, governance, layer, res) ==
    LET r3 == AddIf(/\ plan.time_axis.has_time_filter
                    /\ (plan.time_axis.start_date = <<>> \/ plan.time_axis.end_date = <<>>),
                    res, "TIME_AXIS_INCOMPLETE")
        r4 == AddIf(plan.selected_metrics = <<>> /\ plan.selected_dimensions = <<>>,
                    r3, "EMPTY_SELECTION")
        selected_datasets == _collect_selected_datasets(plan, layer)
        r5 == AddIf(/\ Len(selected_datasets) > 1
                    /\ layer.present
                    /\ ~_has_join_path(layer, selected_datasets),
                    r4, "MULTI_DATASET_NO_JOIN_PATH")
    IN IF layer.present THEN ValidateAgainstLayer(plan, layer, r5) ELSE r5

\* rules 2..9 accumulated onto res
ValidateRules(plan, governance, layer, res) ==
    LET filters == plan.selected_filters
        has_selection_context ==
            \/ plan.selected_metrics # <<>>
            \/ plan.selected_dimensions # <<>>
            \/ plan.selected_dataset_candidates # <<>>
        r2 == AddIf(governance.require_time_filter /\ has_selection_context /\ filters = <<>>,
                    res, "TIME_FILTER_REQUIRED")
        r3 == AddIf(/\ plan.time_axis.has_time_filter
                    /\ (plan.time_axis.start_date = <<>> \/ plan.time_axis.end_date = <<>>),
                    r2, "TIME_AXIS_INCOMPLETE")
        r4 == AddIf(plan.selected_metrics = <<>> /\ plan.selected_dimensions = <<>>,
                    r3, "EMPTY_SELECTION")
        selected_datasets == _collect_selected_datasets(plan, layer)
        r5 == AddIf(/\ Len(selected_datasets) > 1
                    /\ layer.present
                    /\ ~_has_join_path(layer, selected_datasets),
                    r4, "MULTI_DATASET_NO_JOIN_PATH")
    IN IF layer.present THEN ValidateAgainstLayer(plan, layer, r5) ELSE r5

NoErrors == [error_codes |-> <<>>, errors |-> <<>>]

ValidationResult(out) ==
    [ok |-> Len(out.errors) = 0, errors |-> out.errors, error_codes |-> out.error_codes]

\* mutant: a blocked candidate no longer returns early
validate_semantic_plan_no_return(plan, hits, governance, layer) ==
    ValidationResult(
        ValidateRules(plan, governance, layer,
                      IF hits.blocked_matches # <<>>
                      THEN _add_error(NoErrors, "BLOCKED_MATCH", 0) ELSE NoErrors))

validate_semantic_plan(plan, hits, governance, layer) ==
    IF hits.blocked_matches # <<>>
    THEN ValidationResult(_add_error(NoErrors, "BLOCKED_MATCH", 0))
    ELSE ValidationResult(ValidateRules(plan, governance, layer, NoErrors))

----------------------------------------------------------------------------
(* app/sql_compiler.py *)

\* repr() of a list item inside str(list)
ItemRepr(v) ==
    CASE v.kind = "str" -> <<"'">> \o v.s \o <<"'">>
      [] v.kind = "num" -> <<ToString(v.n)>>
      [] v.kind = "float" -> v.s
      [] OTHER -> <<"None">>

\* str(value) for a value that is neither None nor a number
ValueText(v) ==
    IF v.kind = "list"
    THEN <<"[">> \o Join([i \in DOMAIN v.items |-> ItemRepr(v.items[i])], <<", ">>) \o <<"]">>
    ELSE v.s

_quote_sql_value(value) ==
    CASE value.kind = "none" -> <<"NULL">>
      [] value.kind = "num" -> <<ToString(value.n)>>
      [] value.kind = "float" -> value.s
      [] OTHER -> <<"'">> \o Replace(ValueText(value), "'", "''") \o <<"'">>

\* a dict built by successive assignments d[key] = val: <<key, val>> pairs in
\* assignment order, the last assignment of a key wins
DictGet(pairs, key, default) ==
    IF \E i \in DOMAIN pairs : pairs[i][1] = key
    THEN pairs[CHOOSE i \in DOMAIN pairs :
                   pairs[i][1] = key /\ \A j \in (i + 1)..Len(pairs) : pairs[j][1] # key][2]
    ELSE default

\* the (canonical, field) pairs of the items that carry an expr
ExprPairs(owner, items, field(_)) ==
    LET kept == SelectSeq(items, LAMBDA it : Strip(it.expr) # <<>>)
    IN [i \in DOMAIN kept |-> <<Dotted(owner, kept[i].name), field(kept[i])>>]

\* the join clauses (entity_name, clause) of a dataset
JoinClauses(dataset, entities) ==
    LET usable == SelectSeq(dataset.joins,
                            LAMBDA j : /\ j.entity # <<>>
                                       /\ Strip(j.on) # <<>>
                                       /\ Strip(Lookup(entities, j.entity, EmptyEntity).table) # <<>>)
    IN [i \in DOMAIN usable |->
          << usable[i].entity,
             <<"LEFT JOIN ">> \o Strip(Lookup(entities, usable[i].entity, EmptyEntity).table)
                 \o <<" ON ">> \o Strip(usable[i].on) >>]

\* the on clause of the last usable join to the entity named calendar
CalendarJoinOn(dataset, entities) ==
    LET usable == SelectSeq(dataset.joins,
                            LAMBDA j : /\ j.entity = T("calendar")
                                       /\ Strip(j.on) # <<>>
                                       /\ Strip(Lookup(entities, j.entity, EmptyEntity).table) # <<>>)
    IN IF usable = <<>> THEN <<>> ELSE Strip(usable[Len(usable)].on)

_build_semantic_lookup(dataset_name, layer) ==
    LET dataset == Lookup(layer.datasets, dataset_name, EmptyDataset)
        with_expr == SelectSeq(dataset.time_dimensions, LAMBDA t : Strip(t.expr) # <<>>)
    IN [dataset_name |-> dataset_name,
        metric_expr_by_name |->
            ExprPairs(dataset_name, dataset.metrics, LAMBDA m : Strip(m.expr)),
        metric_type_by_name |->
            ExprPairs(dataset_name, dataset.metrics, LAMBDA m : Lower(Strip(m.type))),
        dimension_expr_by_name |->
            ExprPairs(dataset_name, dataset.dimensions, LAMBDA d : Strip(d.expr))
            \o ExprPairs(dataset_name, dataset.time_dimensions, LAMBDA d : Strip(d.expr))
            \o Flatten([i \in DOMAIN layer.entities |->
                          ExprPairs(layer.entities[i].name, layer.entities[i].fields,
                                    LAMBDA d : Strip(d.expr))]),
        first_time_expr |-> IF with_expr = <<>> THEN <<>> ELSE Strip(with_expr[1].expr),
        from_clause |-> Strip(dataset.from),
        join_clauses |-> JoinClauses(dataset, layer.entities),
        calendar_table |-> Strip(Lookup(layer.entities, T("calendar"), EmptyEntity).table),
        calendar_join_on |-> CalendarJoinOn(dataset, layer.entities)]

AggregateTypes == {T("sum"), T("avg"), T("count"), T("count_distinct")}

_normalize_metric_expr(expr, metric_type) ==
    LET mt == Lower(Strip(metric_type))
    IN CASE mt = T("sum") -> <<"SUM(">> \o expr \o <<")">>
         [] mt = T("avg") -> <<"AVG(">> \o expr \o <<")">>
         [] mt = T("count_distinct") -> <<"COUNT(DISTINCT ">> \o expr \o <<")">>
         [] mt = T("count") -> <<"COUNT(">> \o expr \o <<")">>
         [] OTHER -> expr

\* the dataset name the calendar skeleton is written for
SkeletonDataset == T("deposit_balance_daily")

\* mutant: the rewrite is not keyed to the dataset name
_should_use_calendar_skeleton_any_dataset(lookup, group_by_parts) ==
    IF lookup.calendar_table = <<>> \/ lookup.calendar_join_on = <<>> THEN FALSE
    ELSE IF lookup.first_time_expr = <<>> THEN FALSE
    ELSE lookup.first_time_expr \in Range(group_by_parts)

_should_use_calendar_skeleton(lookup, group_by_parts) ==
    IF lookup.dataset_name # SkeletonDataset THEN FALSE
    ELSE IF lookup.calendar_table = <<>> \/ lookup.calendar_join_on = <<>> THEN FALSE
    ELSE IF lookup.first_time_expr = <<>> THEN FALSE
    ELSE lookup.first_time_expr \in Range(group_by_parts)

\* canonical.replace(".", "_")
SqlAlias(canonical) == Replace(canonical, ".", "_")

\* the selected dimensions that resolve to an expr, in plan order
ResolvedDimensions(plan, lookup) ==
    SelectSeq(plan.selected_dimensions,
              LAMBDA c : DictGet(lookup.dimension_expr_by_name, c, <<>>) # <<>>)

\* the selected metrics that resolve to an expr, in plan order
ResolvedMetrics(plan, lookup) ==
    SelectSeq(plan.selected_metrics,
              LAMBDA c : DictGet(lookup.metric_expr_by_name, c, <<>>) # <<>>)

\* mutant: an aggregate is never wrapped in COALESCE
MetricSelectPart_never_wrapped(canonical, lookup, use_calendar_skeleton) ==
    LET expr == DictGet(lookup.metric_expr_by_name, canonical, <<>>)
        metric_type == DictGet(lookup.metric_type_by_name, canonical, <<>>)
    IN _normalize_metric_expr(expr, metric_type) \o <<" AS ">> \o SqlAlias(canonical)

MetricSelectPart(canonical, lookup, use_calendar_skeleton) ==
    LET expr == DictGet(lookup.metric_expr_by_name, canonical, <<>>)
        metric_type == DictGet(lookup.metric_type_by_name, canonical, <<>>)
        metric_expr == _normalize_metric_expr(expr, metric_type)
        wrapped == IF use_calendar_skeleton /\ metric_type \in AggregateTypes
                   THEN <<"COALESCE(">> \o metric_expr \o <<", 0)">>
                   ELSE metric_expr
    IN wrapped \o <<" AS ">> \o SqlAlias(canonical)

\* the WHERE predicate of one filter, <<>> when the filter renders nothing
WherePart(f, lookup) ==
    LET field == Strip(f.field)
        op == Lower(Strip(f.op))
        value == f.value
        field_expr == DictGet(lookup.dimension_expr_by_name, field, field)
    IN IF ~f.is_dict THEN <<>>
       ELSE IF op = T("between") /\ value.kind = "list" /\ Len(value.items) = 2
            THEN field_expr \o <<" BETWEEN ">> \o _quote_sql_value(value.items[1])
                     \o <<" AND ">> \o _quote_sql_value(value.items[2])
       ELSE IF op \in ComparisonOps
            THEN field_expr \o <<" ">> \o op \o <<" ">> \o _quote_sql_value(value)
       ELSE IF op = T("in") /\ value.kind = "list" /\ value.items # <<>>
            THEN field_expr \o <<" IN (">>
                     \o Join([i \in DOMAIN value.items |-> _quote_sql_value(value.items[i])],
                             <<", ">>)
                     \o <<")">>
       ELSE IF Strip(f.expr) # <<>> THEN Strip(f.expr)
       ELSE <<>>

\* the result of a call: raised names the ValueError ("" when it returned),
\* sql is the returned text
compile_sql_from_semantic_plan(plan, layer) ==
    LET datasets == plan.selected_dataset_candidates
        dataset_name == IF datasets = <<>> THEN <<>> ELSE datasets[1]
        lookup == _build_semantic_lookup(dataset_name, layer)
        dims == ResolvedDimensions(plan, lookup)
        dim_exprs == [i \in DOMAIN dims |-> DictGet(lookup.dimension_expr_by_name, dims[i], <<>>)]
        dim_parts == [i \in DOMAIN dims |-> dim_exprs[i] \o <<" AS ">> \o SqlAlias(dims[i])]
        group_by_parts == dim_exprs
        use_calendar_skeleton == _should_use_calendar_skeleton(lookup, group_by_parts)
        metrics == ResolvedMetrics(plan, lookup)
        metric_parts ==
            [i \in DOMAIN metrics |-> MetricSelectPart(metrics[i], lookup, use_calendar_skeleton)]
        select_parts == dim_parts \o metric_parts
        all_where == [i \in DOMAIN plan.selected_filters |->
                         WherePart(plan.selected_filters[i], lookup)]
        where_parts == SelectSeq(all_where, LAMBDA w : w # <<>>)
        other_joins == SelectSeq(lookup.join_clauses, LAMBDA jc : jc[1] # T("calendar"))
        from_lines ==
            IF use_calendar_skeleton
            THEN << <<"FROM ">> \o lookup.calendar_table,
                    <<"LEFT JOIN ">> \o lookup.from_clause \o <<" ON ">> \o lookup.calendar_join_on >>
                 \o [i \in DOMAIN other_joins |-> other_joins[i][2]]
            ELSE << <<"FROM ">> \o lookup.from_clause >>
                 \o [i \in DOMAIN lookup.join_clauses |-> lookup.join_clauses[i][2]]
        sql_lines ==
            << <<"SELECT ">> \o Join(select_parts, <<", ">>) >>
            \o from_lines
            \o (IF where_parts # <<>>
                THEN << <<"WHERE ">> \o Join(where_parts, <<" AND ">>) >> ELSE <<>>)
            \o (IF group_by_parts # <<>>
                THEN << <<"GROUP BY ">> \o Join(group_by_parts, <<", ">>) >> ELSE <<>>)
    IN IF datasets = <<>> THEN [raised |-> "no_dataset", sql |-> <<>>]
       ELSE IF lookup.from_clause = <<>> THEN [raised |-> "no_from", sql |-> <<>>]
       ELSE IF select_parts = <<>> THEN [raised |-> "empty_select", sql |-> <<>>]
       ELSE [raised |-> "", sql |-> Join(sql_lines, <<"\n">>)]

\* compile has not been called
NotCompiled == [raised |-> "not_called", sql |-> <<>>]

----------------------------------------------------------------------------
(* app/sql_planner.py: candidates, allow-listing and fallbacks *)

\* a candidate of token_hits["matches"] / ["blocked_matches"]
Match(object_type, canonical_name, dataset, entity, allowed, source) ==
    [object_type |-> object_type, canonical_name |-> canonical_name, dataset |-> dataset,
     entity |-> entity, allowed |-> allowed, source |-> source]

_normalize_key(value) == Lower(Strip(value))

\* the four "total" words _normalize_phrase removes, written in pinyin
\* (zong e, zong he, he ji, zong ji)
TotalSuffixes == {"zong_e", "zong_he", "he_ji", "zong_ji"}

\* remove every blank and every total-suffix unit
_normalize_phrase(value) ==
    SelectSeq(_normalize_key(value), LAMBDA u : u # " " /\ u \notin TotalSuffixes)

CandidatesOfTypes(matches, object_types) ==
    LET kept == SelectSeq(matches,
                          LAMBDA m : /\ m.object_type \in object_types
                                     /\ m.allowed
                                     /\ m.canonical_name # <<>>)
    IN _unique_keep_order([i \in DOMAIN kept |-> kept[i].canonical_name])

\* _canonical_candidates without _unique_keep_order
_canonical_candidates_with_duplicates(matches, object_type) ==
    LET kept == SelectSeq(matches,
                          LAMBDA m : /\ m.object_type = object_type
                                     /\ m.allowed
                                     /\ m.canonical_name # <<>>)
    IN [i \in DOMAIN kept |-> kept[i].canonical_name]

_canonical_candidates(matches, object_type) == CandidatesOfTypes(matches, {object_type})

_dimension_candidates(matches) == CandidatesOfTypes(matches, {"dimension", "field"})

_dataset_candidates(matches) ==
    LET kept == SelectSeq(matches, LAMBDA m : m.dataset # <<>>)
    IN _unique_keep_order([i \in DOMAIN kept |-> kept[i].dataset])

\* mutant: the stripped value is not looked up in the candidates
_safe_selected_values_unfiltered(candidates, values) ==
    _unique_keep_order(SelectSeq([i \in DOMAIN values |-> Strip(values[i])],
                                 LAMBDA v : v # <<>>))

_safe_selected_values(candidates, values) ==
    _unique_keep_order(SelectSeq([i \in DOMAIN values |-> Strip(values[i])],
                                 LAMBDA v : v # <<>> /\ v \in Range(candidates)))

\* a in b for texts: a is a contiguous part of b
IsSubstring(a, b) ==
    \E k \in 0..(Len(b) - Len(a)) : SubSeq(b, k + 1, k + Len(a)) = a

\* the metrics of one dataset whose name or synonym contains, or is contained in, an ask
InferredOfDataset(dataset, normalized_asks) ==
    LET named == SelectSeq(dataset.metrics, LAMBDA m : Strip(m.name) # <<>>)
        aliases(m) == {_normalize_phrase(a) :
                          a \in {Strip(m.name)}
                                \cup {m.synonyms[i] : i \in {j \in DOMAIN m.synonyms :
                                                                Strip(m.synonyms[j]) # <<>>}}}
                      \ {<<>>}
        hit(m) == \E alias \in aliases(m) :
                      \E i \in DOMAIN normalized_asks :
                          \/ IsSubstring(normalized_asks[i], alias)
                          \/ IsSubstring(alias, normalized_asks[i])
        hits == SelectSeq(named, hit)
    IN [i \in DOMAIN hits |-> Dotted(dataset.name, Strip(hits[i].name))]

\* mutant: every metric of the catalog is inferred, whatever the features ask
_infer_metrics_from_features_all(extracted_features, layer) ==
    IF ~layer.present THEN <<>>
    ELSE _unique_keep_order(
             Flatten([i \in DOMAIN layer.datasets |->
                         [k \in DOMAIN layer.datasets[i].metrics |->
                             Dotted(layer.datasets[i].name, layer.datasets[i].metrics[k].name)]]))

_infer_metrics_from_features(extracted_features, layer) ==
    LET asked_metrics == SelectSeq(extracted_features.metrics, LAMBDA m : Strip(m) # <<>>)
        normalized == [i \in DOMAIN asked_metrics |-> _normalize_phrase(asked_metrics[i])]
        normalized_asks == SelectSeq(normalized, LAMBDA a : a # <<>>)
    IN IF ~layer.present \/ normalized_asks = <<>> THEN <<>>
       ELSE _unique_keep_order(
                Flatten([i \in DOMAIN layer.datasets |->
                            InferredOfDataset(layer.datasets[i], normalized_asks)]))

\* f"{dataset}.{name}" of the first named time dimension, <<>> when there is none
FirstNamedTimeDimension(selected_dataset, layer) ==
    LET dataset == Lookup(layer.datasets, selected_dataset, EmptyDataset)
        named == SelectSeq(dataset.time_dimensions, LAMBDA t : Strip(t.name) # <<>>)
    IN IF named = <<>> THEN <<>> ELSE Dotted(selected_dataset, Strip(named[1].name))

_infer_dimensions_from_features(extracted_features, selected_dataset, layer) ==
    IF selected_dataset = <<>> \/ ~layer.present THEN <<>>
    ELSE IF \A i \in DOMAIN extracted_features.dimensions :
                Strip(extracted_features.dimensions[i]) = <<>>
         THEN <<>>
    ELSE IF FirstNamedTimeDimension(selected_dataset, layer) = <<>> THEN <<>>
    ELSE <<FirstNamedTimeDimension(selected_dataset, layer)>>

_filter_dimensions_for_dataset(selected_dimensions, selected_dataset, layer) ==
    IF selected_dimensions = <<>> \/ selected_dataset = <<>> \/ ~layer.present
    THEN selected_dimensions
    ELSE _unique_keep_order(
             SelectSeq(selected_dimensions,
                       LAMBDA dim : /\ HasDot(dim)
                                    /\ \/ Owner(dim) = selected_dataset
                                       \/ HasKey(layer.entities, Owner(dim))))

CalendarBizDate == <<"calendar", ".", "biz_date">>

_canonicalize_dimensions_for_dataset(selected_dimensions, selected_dataset, layer) ==
    LET dataset == Lookup(layer.datasets, selected_dataset, EmptyDataset)
        time_dimensions == dataset.time_dimensions
        primary_time_name == Strip(time_dimensions[1].name)
        dataset_time_canonical == Dotted(selected_dataset, primary_time_name)
    IN IF selected_dimensions = <<>> \/ selected_dataset = <<>> \/ ~layer.present
       THEN selected_dimensions
       ELSE IF time_dimensions = <<>> THEN selected_dimensions
       ELSE IF primary_time_name = <<>> THEN selected_dimensions
       ELSE _unique_keep_order(
                [i \in DOMAIN selected_dimensions |->
                    IF selected_dimensions[i] = CalendarBizDate
                    THEN dataset_time_canonical ELSE selected_dimensions[i]])

----------------------------------------------------------------------------
(* app/sql_planner.py: free-text filters *)

\* the digit runs that occur in the texts, with int() of each
DigitUnits == {"0", "1", "3", "5", "007", "01", "03", "13", "31", "50", "2023", "2024"}

IntOf(u) ==
    CASE u = "0" -> 0
      [] u \in {"1", "01"} -> 1
      [] u \in {"3", "03"} -> 3
      [] u = "5" -> 5
      [] u = "007" -> 7
      [] u = "13" -> 13
      [] u = "31" -> 31
      [] u = "50" -> 50
      [] u = "2023" -> 2023
      [] u = "2024" -> 2024
      [] OTHER -> 0

\* _NUMERIC_PATTERN on an integer text: -?\d+
IsIntegerText(value) ==
    \/ Len(value) = 1 /\ value[1] \in DigitUnits
    \/ Len(value) = 2 /\ value[1] = "-" /\ value[2] \in DigitUnits

\* _NUMERIC_PATTERN on a decimal text: -?\d+\.\d+
IsDecimalText(value) ==
    \/ Len(value) = 3 /\ value[1] \in DigitUnits /\ value[2] = "." /\ value[3] \in DigitUnits
    \/ /\ Len(value) = 4 /\ value[1] = "-" /\ value[2] \in DigitUnits
       /\ value[3] = "." /\ value[4] \in DigitUnits

IntegerOf(value) == IF value[1] = "-" THEN 0 - IntOf(value[2]) ELSE IntOf(value[1])

\* a float, kept as the text of its repr()
FloatV(s) == [kind |-> "float", s |-> s, n |-> 0, items |-> <<>>]

\* the fraction digits of repr(float(..)): trailing zeros are dropped
FractionRepr(u) == IF u = "50" THEN "5" ELSE u

FloatRepr(value) ==
    IF value[1] = "-"
    THEN <<"-", ToString(IntOf(value[2])), ".", FractionRepr(value[4])>>
    ELSE <<ToString(IntOf(value[1])), ".", FractionRepr(value[3])>>

QuoteUnits == {"'", "\""}

_parse_scalar_filter_value(raw_value) ==
    LET value == Strip(raw_value)
    IN IF Len(value) >= 2 /\ value[1] \in QuoteUnits /\ value[Len(value)] = value[1]
       THEN StrV(SubSeq(value, 2, Len(value) - 1))
       ELSE IF IsDecimalText(value) THEN FloatV(FloatRepr(value))
       ELSE IF IsIntegerText(value) THEN NumV(IntegerOf(value))
       ELSE StrV(value)

\* str.split(sep) for a one-unit separator
RECURSIVE SplitBy(_, _)
SplitBy(s, sep) ==
    IF sep \notin Range(s) THEN <<s>>
    ELSE <<SubSeq(s, 1, FirstIndex(s, sep) - 1)>>
             \o SplitBy(SubSeq(s, FirstIndex(s, sep) + 1, Len(s)), sep)

Min(S) == CHOOSE x \in S : \A y \in S : x <= y

\* index of the first non-blank unit after position b, Len + 1 when none
FirstNonBlankAfter(text, b) ==
    Min({i \in (b + 1)..Len(text) : text[i] # " "} \cup {Len(text) + 1})

\* positions (b, a) of the keywords of "<field> between <start> and <end>"
BetweenAndAt(text, b, a) ==
    /\ b >= 3 /\ LowerUnit(text[b]) = "between" /\ text[b - 1] = " "
    /\ b + 1 <= Len(text) /\ text[b + 1] = " "
    /\ a >= b + 4 /\ a + 2 <= Len(text)
    /\ text[a - 1] = " " /\ LowerUnit(text[a]) = "and" /\ text[a + 1] = " "

\* the match of the regular expression: the field is the shortest possible,
\* then the blanks after between the longest, then the start the shortest
BetweenKeywordIndexes(text) ==
    {b \in DOMAIN text : \E a \in DOMAIN text : BetweenAndAt(text, b, a)}

AndKeywordIndex(text, b) ==
    LET all == {a \in DOMAIN text : BetweenAndAt(text, b, a)}
        preferred == {a \in all : a >= FirstNonBlankAfter(text, b) + 2}
    IN IF preferred # {} THEN Min(preferred) ELSE Min(all)

\* positions (i, o) of the keyword and the parenthesis of "<field> in (<values>)"
InParenAt(text, i, o) ==
    /\ i >= 3 /\ LowerUnit(text[i]) = "in" /\ text[i - 1] = " "
    /\ o > i /\ o + 2 <= Len(text) /\ text[o] = "("
    /\ \A k \in (i + 1)..(o - 1) : text[k] = " "
    /\ text[Len(text)] = ")"

InKeywordIndexes(text) ==
    {i \in DOMAIN text : \E o \in DOMAIN text : InParenAt(text, i, o)}

\* the operators in the order the loop tries them
OperatorOrder == <<"!=", ">=", "<=", "=", ">", "<">>

\* text.replace(fullwidth "=", "=")
FullwidthEquals == "fullwidth_eq"

StepBFilters == T("step_b_filters")

RawFilter(expr, source) == FilterRec(<<>>, <<>>, NoneV, expr, source)

ParseComparison(text) ==
    LET normalized_text == Replace(text, FullwidthEquals, "=")
        present == SelectSeq(OperatorOrder, LAMBDA op : op \in Range(normalized_text))
        op == present[1]
        at == FirstIndex(normalized_text, op)
        field == Strip(SubSeq(normalized_text, 1, at - 1))
        value_text == Strip(SubSeq(normalized_text, at + 1, Len(normalized_text)))
    IN IF present = <<>> THEN RawFilter(text, StepBFilters)
       ELSE IF field # <<>> /\ value_text # <<>>
            THEN FilterRec(field, <<op>>, _parse_scalar_filter_value(value_text), <<>>,
                           StepBFilters)
       ELSE RawFilter(text, StepBFilters)

ParseIn(text) ==
    LET i == Min(InKeywordIndexes(text))
        o == Min({k \in DOMAIN text : InParenAt(text, i, k)})
        parts == SplitBy(SubSeq(text, o + 1, Len(text) - 1), ",")
        raw_values == SelectSeq([k \in DOMAIN parts |-> Strip(parts[k])], LAMBDA v : v # <<>>)
    IN FilterRec(Strip(SubSeq(text, 1, i - 1)), T("in"),
                 ListV([k \in DOMAIN raw_values |-> _parse_scalar_filter_value(raw_values[k])]),
                 <<>>, StepBFilters)

ParseBetween(text) ==
    LET b == Min(BetweenKeywordIndexes(text))
        a == AndKeywordIndex(text, b)
    IN FilterRec(Strip(SubSeq(text, 1, b - 1)), T("between"),
                 ListV(<< _parse_scalar_filter_value(SubSeq(text, b + 1, a - 1)),
                          _parse_scalar_filter_value(SubSeq(text, a + 1, Len(text))) >>),
                 <<>>, StepBFilters)

_parse_filter_expr(filter_text) ==
    LET text == Strip(filter_text)
    IN IF text = <<>> THEN RawFilter(text, StepBFilters)
       ELSE IF BetweenKeywordIndexes(text) # {} THEN ParseBetween(text)
       ELSE IF InKeywordIndexes(text) # {} THEN ParseIn(text)
       ELSE ParseComparison(text)

----------------------------------------------------------------------------
(* app/sql_planner.py: alias index, filter fields, time bounds *)

\* the aliases of one catalog item, in the order _add_alias receives them
ItemAliases(owner, item) ==
    LET name == Strip(item.name)
        canonical == Dotted(owner, name)
    IN <<canonical, name>> \o item.synonyms

\* the month words every month-grained time dimension answers to
\* (yue fen, nian yue, yue du are written in pinyin)
MonthAliases == <<T("yue_fen"), T("month"), T("month_id"), T("nian_yue"), T("yue_du")>>

\* the (alias, canonical) pairs offered to _add_alias, in order
AliasOffers(owner, items, extra(_)) ==
    LET named == SelectSeq(items, LAMBDA it : Strip(it.name) # <<>>)
    IN Flatten([i \in DOMAIN named |->
                   LET aliases == ItemAliases(owner, named[i]) \o extra(named[i])
                   IN [k \in DOMAIN aliases |->
                          <<aliases[k], Dotted(owner, Strip(named[i].name))>>]])

\* _add_alias over a sequence of offers: a blank key is skipped, the first
\* canonical offered for a key is kept
RECURSIVE _add_alias(_, _)
_add_alias(alias_lookup, offers) ==
    IF offers = <<>> THEN alias_lookup
    ELSE LET key == _normalize_key(Head(offers)[1])
         IN _add_alias(IF key # <<>> /\ \A i \in DOMAIN alias_lookup : alias_lookup[i][1] # key
                       THEN Append(alias_lookup, <<key, Head(offers)[2]>>)
                       ELSE alias_lookup,
                       Tail(offers))

\* alias_lookup.get(key): the canonical name, <<>> when the key is absent
AliasGet(alias_lookup, key) ==
    IF \E i \in DOMAIN alias_lookup : alias_lookup[i][1] = key
    THEN alias_lookup[CHOOSE i \in DOMAIN alias_lookup : alias_lookup[i][1] = key][2]
    ELSE <<>>

_build_field_alias_lookup(layer, dataset_name) ==
    LET dataset == Lookup(layer.datasets, dataset_name, EmptyDataset)
        listed == SelectSeq(dataset.joins, LAMBDA j : Strip(j.entity) # <<>>)
        join_entities ==
            IF dataset_name = <<>>
            THEN [i \in DOMAIN layer.entities |-> layer.entities[i].name]
            ELSE [i \in DOMAIN listed |-> Strip(listed[i].entity)]
        none(it) == <<>>
        month(it) == IF Lower(Strip(it.grain)) = T("month") THEN MonthAliases ELSE <<>>
    IN IF ~layer.present THEN <<>>
       ELSE _add_alias(<<>>,
                AliasOffers(dataset_name, dataset.dimensions, none)
                \o AliasOffers(dataset_name, dataset.time_dimensions, month)
                \o Flatten([i \in DOMAIN join_entities |->
                               AliasOffers(join_entities[i],
                                           Lookup(layer.entities, join_entities[i],
                                                  EmptyEntity).fields,
                                           none)]))

_normalize_filter_field(parsed_filter, alias_lookup, raw_filter_text) ==
    LET field == parsed_filter.field
        canonical == AliasGet(alias_lookup, _normalize_key(field))
    IN IF Strip(field) = <<>> THEN parsed_filter
       ELSE IF canonical # <<>> THEN [parsed_filter EXCEPT !.field = canonical]
       ELSE IF HasDot(Strip(field)) THEN parsed_filter
       ELSE RawFilter(Strip(raw_filter_text),
                      IF parsed_filter.source = <<>> THEN StepBFilters
                      ELSE parsed_filter.source)

_build_step_b_filters(extracted_features, layer, selected_dataset) ==
    LET alias_lookup == _build_field_alias_lookup(layer, selected_dataset)
        texts == SelectSeq(extracted_features.filters, LAMBDA f : Strip(f) # <<>>)
    IN [i \in DOMAIN texts |->
           _normalize_filter_field(_parse_filter_expr(texts[i]), alias_lookup, texts[i])]

_resolve_time_filter_field(selected_dataset, layer) ==
    IF selected_dataset = <<>> \/ ~layer.present THEN CalendarBizDate
    ELSE IF FirstNamedTimeDimension(selected_dataset, layer) = <<>> THEN CalendarBizDate
    ELSE FirstNamedTimeDimension(selected_dataset, layer)

_resolve_time_dimension_grain(selected_dataset, layer) ==
    LET dataset == Lookup(layer.datasets, selected_dataset, EmptyDataset)
        grained == SelectSeq(dataset.time_dimensions, LAMBDA t : Lower(Strip(t.grain)) # <<>>)
    IN IF selected_dataset = <<>> \/ ~layer.present \/ grained = <<>> THEN <<>>
       ELSE Lower(Strip(grained[1].grain))

FourDigits == {"2023", "2024"}

TwoDigits == {"01", "03", "13", "31", "50"}

\* ^\d{4}-\d{2}(?:-\d{2})?$
IsMonthOrDayText(text) ==
    /\ Len(text) \in {3, 5}
    /\ text[1] \in FourDigits /\ text[2] = "-" /\ text[3] \in TwoDigits
    /\ Len(text) = 5 => text[4] = "-" /\ text[5] \in TwoDigits

_normalize_time_bound_value(value, grain) ==
    LET text == Strip(value)
    IN IF grain = T("month") /\ IsMonthOrDayText(text) THEN SubSeq(text, 1, 3) ELSE text

\* the separators of (\d{4})[-nian/](\d{1,2}); nian is the year character
MonthSeparators == {"-", "nian", "/"}

\* the first one or two digits of a digit run, zero-filled to two digits
MonthDigits(u) ==
    CASE u = "0" -> "00"
      [] u = "1" -> "01"
      [] u = "3" -> "03"
      [] u = "5" -> "05"
      [] u = "007" -> "00"
      [] u \in FourDigits -> "20"
      [] OTHER -> u

MonthNumber(mm) ==
    CASE mm = "00" -> 0
      [] mm = "05" -> 5
      [] mm = "20" -> 20
      [] OTHER -> IntOf(mm)

\* re.findall, left to right without overlap
RECURSIVE FindMonths(_, _)
FindMonths(text, i) ==
    IF i + 2 > Len(text) THEN <<>>
    ELSE IF text[i] \in FourDigits /\ text[i + 1] \in MonthSeparators /\ text[i + 2] \in DigitUnits
         THEN << <<text[i], MonthDigits(text[i + 2])>> >> \o FindMonths(text, i + 3)
         ELSE FindMonths(text, i + 1)

_extract_month_tokens(query_text) ==
    LET months == FindMonths(query_text, 1)
        valid == SelectSeq(months, LAMBDA m : 1 <= MonthNumber(m[2]) /\ MonthNumber(m[2]) <= 12)
    IN IF Strip(query_text) = <<>> THEN <<>>
       ELSE _unique_keep_order([i \in DOMAIN valid |-> <<valid[i][1], "-", valid[i][2]>>])

StepBTimeBounds == T("step_b_time_bounds")

_build_time_filter_from_bounds(time_start, time_end, selected_dataset, layer) ==
    LET start == Strip(time_start)
        end == Strip(time_end)
        grain == _resolve_time_dimension_grain(selected_dataset, layer)
    IN IF start = <<>> \/ end = <<>> THEN <<>>
       ELSE << FilterRec(_resolve_time_filter_field(selected_dataset, layer), T("between"),
                         ListV(<< StrV(_normalize_time_bound_value(start, grain)),
                                  StrV(_normalize_time_bound_value(end, grain)) >>),
                         <<>>, StepBTimeBounds) >>

_prune_conflicting_month_filters(selected_filters, month_field) ==
    SelectSeq(selected_filters,
              LAMBDA f : /\ f.is_dict
                         /\ f.source # StepBTimeBounds
                         /\ ~(/\ f.field = month_field
                              /\ Lower(Strip(f.op)) \in {T("="), T("between"), T("in")}
                              /\ f.source = StepBFilters)
                         /\ ~(f.source = StepBFilters /\ "yue_fen" \in Range(f.expr)))

----------------------------------------------------------------------------
(* app/sql_planner.py: merge_llm_selection_into_plan *)

AllowedBinaryOps ==
    {T("between"), T("="), T("!="), T(">"), T(">="), T("<"), T("<="), T("in")}

\* mutant: a field the alias index does not resolve is kept as it was written
SanitizedFilter_keeping_unresolved(item, alias_lookup) ==
    LET field == item.field
        canonical == AliasGet(alias_lookup, _normalize_key(field))
        copied == IF canonical # <<>> THEN [item EXCEPT !.field = canonical] ELSE item
        op == Replace(Lower(Strip(item.op)), "_", " ")
    IN IF ~item.is_dict THEN <<>>
       ELSE IF op = <<>> THEN <<copied>>
       ELSE IF op \in UnaryOps
            THEN IF Strip(copied.field) = <<>> THEN <<>>
                 ELSE <<FilterRec(copied.field, op, NoneV, <<>>, <<>>)>>
       ELSE IF op \notin AllowedBinaryOps THEN <<>>
       ELSE <<copied>>

\* what one proposer filter becomes: <<>> when it is rejected, <<copied>> when kept
SanitizedFilter(item, alias_lookup) ==
    LET field == item.field
        has_field == Strip(field) # <<>>
        canonical == AliasGet(alias_lookup, _normalize_key(field))
        valid_canonical_fields == {alias_lookup[i][2] : i \in DOMAIN alias_lookup}
        canonical_field ==
            IF ~has_field THEN <<>>
            ELSE IF canonical # <<>> THEN canonical
            ELSE IF HasDot(Strip(field)) /\ Strip(field) \in valid_canonical_fields
                 THEN Strip(field)
            ELSE <<>>
        copied == IF has_field THEN [item EXCEPT !.field = canonical_field] ELSE item
        op == Replace(Lower(Strip(item.op)), "_", " ")
    IN IF ~item.is_dict THEN <<>>
       ELSE IF has_field /\ canonical_field = <<>> THEN <<>>
       ELSE IF op = <<>> THEN <<copied>>
       ELSE IF op \in UnaryOps
            THEN IF canonical_field = <<>> THEN <<>>
                 ELSE <<FilterRec(canonical_field, op, NoneV, <<>>, <<>>)>>
       ELSE IF op \notin AllowedBinaryOps THEN <<>>
       ELSE <<copied>>

_sanitize_llm_filters(llm_filters, layer, selected_dataset) ==
    LET alias_lookup == _build_field_alias_lookup(layer, selected_dataset)
    IN Flatten([i \in DOMAIN llm_filters |-> SanitizedFilter(llm_filters[i], alias_lookup)])

QueryTextMonthBounds == T("query_text_month_bounds")

\* the filters of the plan: proposer filters or free-text filters, then the
\* time bounds, then the month bounds read from the query text
MergedFilters(llm_selection_, extracted_features, primary_dataset, layer) ==
    LET sanitized == _sanitize_llm_filters(llm_selection_.selected_filters, layer,
                                           primary_dataset)
        base == IF sanitized # <<>> THEN sanitized
                ELSE _build_step_b_filters(extracted_features, layer, primary_dataset)
        bounded == base \o _build_time_filter_from_bounds(extracted_features.time_start,
                                                          extracted_features.time_end,
                                                          primary_dataset, layer)
        grain == _resolve_time_dimension_grain(primary_dataset, layer)
        month_tokens == _extract_month_tokens(extracted_features.query_text)
        month_field == _resolve_time_filter_field(primary_dataset, layer)
    IN IF grain = T("month") /\ Len(month_tokens) >= 2
       THEN Append(_prune_conflicting_month_filters(bounded, month_field),
                   FilterRec(month_field, T("between"),
                             ListV(<< StrV(month_tokens[1]),
                                      StrV(month_tokens[Len(month_tokens)]) >>),
                             <<>>, QueryTextMonthBounds))
       ELSE bounded

RejectedCandidates(blocked) ==
    LET named == SelectSeq(blocked, LAMBDA b : b.canonical_name # <<>>)
    IN [i \in DOMAIN named |->
           [canonical_name |-> named[i].canonical_name, reason |-> "sensitive_or_disallowed"]]

merge_llm_selection_into_plan(llm_selection_, token_hits_, extracted_features, layer) ==
    LET matches == token_hits_.matches
        metric_candidates == _canonical_candidates(matches, "metric")
        dimension_candidates == _dimension_candidates(matches)
        dataset_candidates == _dataset_candidates(matches)
        safe_metrics == _safe_selected_values(metric_candidates, llm_selection_.selected_metrics)
        safe_dimensions ==
            _safe_selected_values(dimension_candidates, llm_selection_.selected_dimensions)
        safe_datasets ==
            _safe_selected_values(dataset_candidates, llm_selection_.selected_dataset_candidates)
        selected_metrics ==
            IF safe_metrics # <<>> THEN safe_metrics
            ELSE IF metric_candidates # <<>> THEN metric_candidates
            ELSE _infer_metrics_from_features(extracted_features, layer)
        dotted_metrics == SelectSeq(selected_metrics, HasDot)
        selected_datasets ==
            IF safe_datasets # <<>> THEN safe_datasets
            ELSE IF dataset_candidates # <<>> THEN dataset_candidates
            ELSE _unique_keep_order([i \in DOMAIN dotted_metrics |-> Owner(dotted_metrics[i])])
        primary_dataset == IF selected_datasets # <<>> THEN selected_datasets[1] ELSE <<>>
        chosen_dimensions ==
            IF safe_dimensions # <<>> THEN safe_dimensions
            ELSE IF dimension_candidates # <<>> THEN dimension_candidates
            ELSE _infer_dimensions_from_features(extracted_features, primary_dataset, layer)
        selected_dimensions ==
            _canonicalize_dimensions_for_dataset(
                _filter_dimensions_for_dataset(chosen_dimensions, primary_dataset, layer),
                primary_dataset, layer)
        needs_clarification == selected_metrics = <<>> /\ selected_dimensions = <<>>
    IN [Plan(selected_metrics, selected_dimensions,
             MergedFilters(llm_selection_, extracted_features, primary_dataset, layer),
             selected_datasets, NoTimeAxis)
        EXCEPT !.rejected_candidates = RejectedCandidates(token_hits_.blocked_matches),
               !.needs_clarification = needs_clarification,
               !.clarification_questions =
                   IF needs_clarification THEN <<"name_a_metric_or_dimension">> ELSE <<>>]

\* the plan built from the candidates alone, without a proposer
build_semantic_plan(extracted_features, token_hits_, layer) ==
    LET matches == token_hits_.matches
        selected_metrics == _canonical_candidates(matches, "metric")
        selected_dimensions == _dimension_candidates(matches)
        dataset_candidates == _dataset_candidates(matches)
        primary_dataset == IF dataset_candidates # <<>> THEN dataset_candidates[1] ELSE <<>>
        bounded == _build_step_b_filters(extracted_features, layer, primary_dataset)
                   \o _build_time_filter_from_bounds(extracted_features.time_start,
                                                     extracted_features.time_end,
                                                     primary_dataset, layer)
        grain == _resolve_time_dimension_grain(primary_dataset, layer)
        month_tokens == _extract_month_tokens(extracted_features.query_text)
        month_field == _resolve_time_filter_field(primary_dataset, layer)
        selected_filters ==
            IF grain = T("month") /\ Len(month_tokens) >= 2
            THEN Append(_prune_conflicting_month_filters(bounded, month_field),
                        FilterRec(month_field, T("between"),
                                  ListV(<< StrV(month_tokens[1]),
                                           StrV(month_tokens[Len(month_tokens)]) >>),
                                  <<>>, QueryTextMonthBounds))
            ELSE bounded
        needs_clarification == selected_metrics = <<>> /\ selected_dimensions = <<>>
    IN [Plan(selected_metrics, selected_dimensions, selected_filters, dataset_candidates,
             NoTimeAxis)
        EXCEPT !.rejected_candidates = RejectedCandidates(token_hits_.blocked_matches),
               !.needs_clarification = needs_clarification,
               !.clarification_questions =
                   IF needs_clarification THEN <<"name_a_metric_or_dimension">> ELSE <<>>]

----------------------------------------------------------------------------
(* Enumerated inputs of direct calls of validate and compile *)

\* canonical names a plan may select as metrics
PlanMetricNames ==
    { <<"sales", ".", "revenue">>,                       \* metric of sales
      <<"sales", ".", "orders">>,                        \* metric of sales without expr
      <<"sales", ".", "ghost_metric">>,                  \* not in the catalog
      <<"deposit_balance_daily", ".", "deposit_end_balance">> }

\* canonical names a plan may select as dimensions
PlanDimensionNames ==
    { <<"sales", ".", "channel">>,
      <<"sales", ".", "biz_date">>,
      <<"deposit_balance_daily", ".", "biz_date">>,
      <<"branch", ".", "region">>,                       \* entity joined by sales
      <<"customer", ".", "segment">>,                    \* entity sales does not join
      <<"other", ".", "region">> }                       \* owner not in the catalog

\* the selected_dimensions lists that are enumerated
PlanDimensionLists ==
    {<<>>} \cup {<<d>> : d \in PlanDimensionNames}
    \cup { << <<"sales", ".", "biz_date">>, <<"branch", ".", "region">> >>,
           << <<"sales", ".", "channel">>, <<"customer", ".", "segment">> >> }

\* the selected_dataset_candidates lists that are enumerated
PlanDatasetLists ==
    { <<>>, <<T("sales")>>, <<T("deposit_balance_daily")>>, <<T("complaints")>>,
      <<T("sales"), T("deposit_balance_daily")>>, <<T("sales"), T("complaints")>> }

January == ListV(<<StrV(T("2024-01-01")), StrV(T("2024-01-31"))>>)

BetweenJanuary == FilterRec(<<"sales", ".", "biz_date">>, T("between"), January, <<>>, <<>>)

BetweenOneValue ==
    FilterRec(<<"sales", ".", "biz_date">>, T("between"), ListV(<<StrV(T("2024-01-01"))>>),
              <<>>, <<>>)

InEmpty == FilterRec(<<"branch", ".", "region">>, T("in"), ListV(<<>>), <<>>, <<>>)

CompareNone == FilterRec(<<"branch", ".", "region">>, T("!="), NoneV, <<>>, <<>>)

RawInjection ==
    FilterRec(<<>>, <<>>, NoneV, <<"1=1", ";", " ", "DROP TABLE t">>, T("step_b_filters"))

RawLimit ==
    FilterRec(<<>>, <<>>, NoneV, <<"1=1", " ", "LIMIT", " ", "5">>, T("step_b_filters"))

PlanFilters ==
    { BetweenJanuary, BetweenOneValue, InEmpty, CompareNone, RawInjection, RawLimit,
      FilterRec(<<"sales", ".", "biz_date">>, <<" ", "BETWEEN">>,
                StrV(T("2024-01-01")), <<>>, <<>>),
      FilterRec(<<"branch", ".", "region">>, T("="), StrV(<<"o", "'", "neil">>), <<>>, <<>>),
      FilterRec(<<"branch", ".", "region">>, T("in"),
                ListV(<<StrV(T("north")), NumV(7)>>), <<>>, <<>>),
      FilterRec(<<"branch", ".", "region">>, <<"is", " ", "null">>, NoneV, <<>>, <<>>),
      FilterRec(<<" ", "sales", ".", "biz_date", " ">>, T(">="),
                StrV(T("2024-01-01")), <<>>, <<>>),
      FilterRec(<<"sales", ".", "ghost_dim">>, T("="), NumV(1), <<>>, <<>>),
      FilterRec(<<"sales", ".", "revenue">>, T(">"), NumV(5), <<>>, <<>>),
      FilterRec(T("amount"), T("<"), NumV(5), <<>>, <<>>),
      FilterRec(<<>>, <<>>, NoneV, T("s.amount > 0"), T("step_b_filters")),
      FilterRec(<<>>, <<>>, NoneV, <<>>, <<>>),
      NotADict }

\* the selected_filters lists that are enumerated
PlanFilterLists ==
    {<<>>} \cup {<<f>> : f \in PlanFilters}
    \cup { <<BetweenJanuary, RawInjection>>, <<BetweenOneValue, InEmpty>>,
           <<CompareNone, InEmpty>> }

PlanTimeAxes ==
    { NoTimeAxis,
      [has_time_filter |-> TRUE, start_date |-> T("2024-01-01"), end_date |-> <<>>] }

\* a blocked candidate as match() reports it
BlockedIdNo ==
    [object_type |-> "sensitive_field", canonical_name |-> <<"customer", ".", "id_no">>,
     dataset |-> <<>>, entity |-> T("customer"), allowed |-> FALSE, source |-> "exact"]

EmptyPlan == Plan(<<>>, <<>>, <<>>, <<>>, NoTimeAxis)

NoFeatures ==
    [tokens |-> <<>>, metrics |-> <<>>, dimensions |-> <<>>, filters |-> <<>>,
     time_start |-> <<>>, time_end |-> <<>>, query_text |-> <<>>]

NoSelection ==
    [selected_metrics |-> <<>>, selected_dimensions |-> <<>>,
     selected_dataset_candidates |-> <<>>, selected_filters |-> <<>>]

NoValidation == [ok |-> FALSE, errors |-> <<>>, error_codes |-> <<"not_called">>]

\* no statement has been handed to SQLQueryExecutor.run
NotExecuted == [status |-> "none", sql |-> <<>>]

\* no table is looked at
EmptyDatabase == [calendar |-> {}, fact |-> <<>>]

\* cursor.execute has not been called
NotQueried == [status |-> "none", rows |-> <<>>]

\* match has not called the embedding model or the reranker
NoRetrieval ==
    [called |-> FALSE, embedding_failed |-> FALSE, reranker_failed |-> FALSE,
     ranking |-> <<>>, results |-> <<>>]

\* what the two network calls of one match gave: an embedding call that raises
\* gives no ranking (except Exception: return []), a reranker call that raises
\* gives no results (except Exception: return candidates[:top_k])
Retrieved(embedding_failed, reranker_failed, ranking, results) ==
    [called |-> TRUE, embedding_failed |-> embedding_failed,
     reranker_failed |-> reranker_failed,
     ranking |-> IF embedding_failed THEN <<>> ELSE ranking,
     results |-> IF reranker_failed THEN <<>> ELSE results]

----------------------------------------------------------------------------
(* Direct calls: validate_semantic_plan on any plan, then                  *)
(* compile_sql_from_semantic_plan on the same plan and catalog             *)

InitValidate ==
    /\ pc = "call"
    /\ semantic_layer \in {Layer, NoLayer}
    /\ governance_limits \in [require_time_filter : BOOLEAN]
    /\ features = NoFeatures
    /\ llm_selection = NoSelection
    /\ \E blocked \in {<<>>, <<BlockedIdNo>>} :
           token_hits = [matches |-> <<>>, blocked_matches |-> blocked]
    /\ \E m \in SeqUpTo(PlanMetricNames, MaxMetrics), d \in PlanDimensionLists,
          ds \in PlanDatasetLists, f \in PlanFilterLists, ta \in PlanTimeAxes :
           enhanced_plan = Plan(m, d, f, ds, ta)
    /\ validation = NoValidation
    /\ compiled = NotCompiled
    /\ executed = NotExecuted
    /\ settings = [db_configured |-> FALSE]
    /\ database = EmptyDatabase
    /\ query_result = NotQueried
    /\ retrieval = NoRetrieval
    /\ requests = <<>>
    /\ calls = <<>>

CallValidate ==
    /\ pc = "call"
    /\ validation' = validate_semantic_plan(enhanced_plan, token_hits, governance_limits,
                                            semantic_layer)
    /\ pc' = "validated"
    /\ UNCHANGED <<semantic_layer, governance_limits, features, llm_selection, token_hits,
                   enhanced_plan, compiled, executed, settings,
                   database, query_result, retrieval, requests, calls>>

CallCompile ==
    /\ pc = "validated"
    /\ semantic_layer.present
    /\ compiled' = compile_sql_from_semantic_plan(enhanced_plan, semantic_layer)
    /\ pc' = "compiled"
    /\ UNCHANGED <<semantic_layer, governance_limits, features, llm_selection, token_hits,
                   enhanced_plan, validation, executed, settings,
                   database, query_result, retrieval, requests, calls>>

NextValidate == CallValidate \/ CallCompile

SpecValidate == InitValidate /\ [][NextValidate]_vars

----------------------------------------------------------------------------
(* app/token_matcher.py *)

\* _normalize without .lower()
_normalize_case_sensitive(text) == Strip(text)

_normalize(text) == Lower(Strip(text))

_collect_aliases(item) ==
    LET aliases == <<item.name>> \o item.synonyms
                   \o (IF item.expr # <<>> THEN <<item.expr>> ELSE <<>>)
        kept == SelectSeq(aliases, LAMBDA a : Strip(a) # <<>>)
    IN [i \in DOMAIN kept |-> _normalize(kept[i])]

SemanticEntry(object_type, owner, item, dataset, entity, allowed) ==
    [object_type |-> object_type, canonical_name |-> Dotted(owner, item.name),
     aliases |-> _collect_aliases(item), dataset |-> dataset, entity |-> entity,
     allowed |-> allowed]

EntriesOf(object_type, owner, items, dataset, entity, allowed) ==
    [i \in DOMAIN items |-> SemanticEntry(object_type, owner, items[i], dataset, entity, allowed)]

\* self.entries: the fields and sensitive fields of every entity, then the
\* time dimensions, metrics and dimensions of every dataset
_build_entries_and_indexes(layer) ==
    Flatten([i \in DOMAIN layer.entities |->
                LET e == layer.entities[i]
                IN EntriesOf("field", e.name, e.fields, <<>>, e.name, TRUE)
                   \o EntriesOf("sensitive_field", e.name, e.sensitive_fields, <<>>, e.name,
                                FALSE)])
    \o Flatten([i \in DOMAIN layer.datasets |->
                   LET d == layer.datasets[i]
                   IN EntriesOf("time_dimension", d.name, d.time_dimensions, d.name, <<>>, TRUE)
                      \o EntriesOf("metric", d.name, d.metrics, d.name, <<>>, TRUE)
                      \o EntriesOf("dimension", d.name, d.dimensions, d.name, <<>>, TRUE)])

\* self._entry_lookup: for a canonical name carried by two entries, the last
_entry_lookup(entries, canonical) ==
    entries[CHOOSE i \in DOMAIN entries :
                /\ entries[i].canonical_name = canonical
                /\ \A j \in (i + 1)..Len(entries) : entries[j].canonical_name # canonical]

_to_match_payload(entry, source) ==
    Match(entry.object_type, entry.canonical_name, entry.dataset, entry.entity, entry.allowed,
          source)

\* the non-blank values of the given keys, in key order
FeatureValues(extracted_features, keys) ==
    SelectSeq(Flatten([i \in DOMAIN keys |-> extracted_features[keys[i]]]),
              LAMBDA v : Strip(v) # <<>>)

\* keep the first item of every canonical name, drop items without a name
RECURSIVE MergeFrom(_, _)
MergeFrom(items, merged) ==
    IF items = <<>> THEN merged
    ELSE MergeFrom(Tail(items),
                   IF \/ Head(items).canonical_name = <<>>
                      \/ \E i \in DOMAIN merged :
                             merged[i].canonical_name = Head(items).canonical_name
                   THEN merged ELSE Append(merged, Head(items)))

\* mutant: the retrieved candidates are merged before the exact hits
_merge_matches_retrieved_first(exact_matches, retrieved) ==
    MergeFrom(retrieved \o exact_matches, <<>>)

_merge_matches(exact_matches, retrieved) == MergeFrom(exact_matches \o retrieved, <<>>)

\* <<matches, blocked>> of the exact-alias path
_build_exact_matches(extracted_features, entries) ==
    LET raw == FeatureValues(extracted_features, <<"tokens", "metrics", "dimensions">>)
        values == [i \in DOMAIN raw |-> _normalize(raw[i])]
        hits == Flatten([i \in DOMAIN values |->
                            SelectSeq(entries, LAMBDA e : values[i] \in Range(e.aliases))])
        first == SelectSeq([i \in DOMAIN hits |-> <<i, hits[i]>>],
                           LAMBDA p : \A j \in 1..(p[1] - 1) :
                                          hits[j].canonical_name # p[2].canonical_name)
        payloads == [i \in DOMAIN first |-> _to_match_payload(first[i][2], "exact")]
    IN << SelectSeq(payloads, LAMBDA m : m.allowed),
          SelectSeq(payloads, LAMBDA m : ~m.allowed) >>

\* top_k of _semantic_retrieve and _rerank
top_k == 8

\* s[:n]
Take(s_, n) == SubSeq(s_, 1, IF Len(s_) < n THEN Len(s_) ELSE n)

\* the query handed to the embedding model
semantic_query(extracted_features) ==
    Strip(Join(FeatureValues(extracted_features,
                             <<"metrics", "dimensions", "tokens", "filters">>),
               <<" ">>))

\* _semantic_retrieve: ranking is the order of the documents by similarity
\* (indexes into entries), <<>> when the embedding call fails or is not configured
_semantic_retrieve(query, entries, ranking) ==
    IF query = <<>> THEN <<>>
    ELSE LET top == Take(ranking, top_k)
         IN [i \in DOMAIN top |->
                _to_match_payload(_entry_lookup(entries, entries[top[i]].canonical_name),
                                  "embedding")]

\* _rerank that answers with nothing unless the reranker ranked a candidate
_rerank_nothing_without_results(query, candidates, results) ==
    LET valid == SelectSeq(results, LAMBDA idx : idx >= 1 /\ idx <= Len(candidates))
        ranked == [i \in DOMAIN valid |->
                      [candidates[valid[i]] EXCEPT !.source = "embedding+reranker"]]
    IN Take(ranked, top_k)

\* _rerank: results is the list of indexes the reranker returns, <<>> when the
\* call fails, returns nothing or is not configured
_rerank(query, candidates, results) ==
    LET valid == SelectSeq(results, LAMBDA idx : idx >= 1 /\ idx <= Len(candidates))
        ranked == [i \in DOMAIN valid |->
                      [candidates[valid[i]] EXCEPT !.source = "embedding+reranker"]]
    IN IF query = <<>> \/ candidates = <<>> THEN Take(candidates, top_k)
       ELSE IF ranked # <<>> THEN Take(ranked, top_k)
       ELSE Take(candidates, top_k)

match(extracted_features, layer, ranking, results) ==
    LET entries == _build_entries_and_indexes(layer)
        exact == _build_exact_matches(extracted_features, entries)
        query == semantic_query(extracted_features)
        embedding_hits == _semantic_retrieve(query, entries, ranking)
        reranked_hits == _rerank(query, embedding_hits, results)
        retrieved_allowed == SelectSeq(reranked_hits, LAMBDA item : item.allowed)
        retrieved_blocked == SelectSeq(reranked_hits, LAMBDA item : ~item.allowed)
    IN [tokens |-> extracted_features.tokens,
        time_start |-> extracted_features.time_start,
        time_end |-> extracted_features.time_end,
        matches |-> _merge_matches(exact[1], retrieved_allowed),
        blocked_matches |-> _merge_matches(exact[2], retrieved_blocked)]

----------------------------------------------------------------------------
(* Direct calls of merge_llm_selection_into_plan on any candidates, any    *)
(* proposer selection and any features                                     *)

Hit(object_type, canonical_name, dataset, entity) ==
    Match(object_type, canonical_name, dataset, entity, TRUE, "exact")

RevenueHit == Hit("metric", <<"sales", ".", "revenue">>, T("sales"), <<>>)

OrdersHit == Hit("metric", <<"sales", ".", "orders">>, T("sales"), <<>>)

DepositHit ==
    Hit("metric", <<"deposit_balance_daily", ".", "deposit_end_balance">>,
        T("deposit_balance_daily"), <<>>)

CaseCntHit == Hit("metric", <<"complaints", ".", "case_cnt">>, T("complaints"), <<>>)

ChannelHit == Hit("dimension", <<"sales", ".", "channel">>, T("sales"), <<>>)

SalesTimeHit == Hit("time_dimension", <<"sales", ".", "biz_date">>, T("sales"), <<>>)

RegionHit == Hit("field", <<"branch", ".", "region">>, <<>>, T("branch"))

SegmentHit == Hit("field", <<"customer", ".", "segment">>, <<>>, T("customer"))

CalendarHit == Hit("field", CalendarBizDate, <<>>, T("calendar"))

\* a candidate of matches that is flagged as not allowed
DisallowedRateHit ==
    Match("metric", <<"deposit_balance_daily", ".", "rate">>, T("deposit_balance_daily"),
          <<>>, FALSE, "embedding")

\* the token_hits["matches"] lists that are enumerated
MatchLists ==
    { <<>>, <<RevenueHit>>, <<RevenueHit, OrdersHit>>, <<RevenueHit, ChannelHit, RegionHit>>,
      <<ChannelHit>>, <<CalendarHit, DepositHit>>, <<SegmentHit, RevenueHit>>, <<CaseCntHit>>,
      <<CalendarHit, CaseCntHit>>, <<SalesTimeHit>>, <<RevenueHit, RevenueHit>>,
      <<DisallowedRateHit, RevenueHit>>, <<DepositHit, RevenueHit, ChannelHit>>, <<RegionHit>> }

Selection(metrics, dimensions, datasets, filters) ==
    [selected_metrics |-> metrics, selected_dimensions |-> dimensions,
     selected_dataset_candidates |-> datasets, selected_filters |-> filters]

GhostMetric == <<"sales", ".", "ghost_metric">>

\* the proposer selections that are enumerated: candidates, padded candidates,
\* names that are no candidate, and filters of every kind the sanitizer tells apart
Selections ==
    { NoSelection,
      Selection(<< <<"sales", ".", "revenue">> >>, <<>>, <<>>, <<>>),
      Selection(<< <<" ", "sales", ".", "revenue", " ">> >>, <<>>, <<>>, <<>>),
      Selection(<<GhostMetric>>, <<>>, <<>>, <<>>),
      Selection(<< <<"sales", ".", "orders">>, GhostMetric >>,
                << <<"sales", ".", "channel">> >>, <<T("sales")>>, <<>>),
      Selection(<< <<>>, <<"sales", ".", "revenue">>, <<"sales", ".", "revenue">> >>,
                << <<"other", ".", "region">> >>, <<T("ghost_dataset")>>, <<>>),
      Selection(<<>>, <<CalendarBizDate>>, <<T("deposit_balance_daily")>>, <<>>),
      Selection(<<>>, << <<"branch", ".", "region", " ">>, <<"customer", ".", "segment">> >>,
                << <<" ", "sales">> >>, <<>>),
      Selection(<<>>, <<>>, <<>>, <<BetweenJanuary>>),
      Selection(<<>>, <<>>, <<>>,
                << FilterRec(T("Region"), T("="), StrV(T("north")), <<>>, <<>>),
                   FilterRec(T("amount"), T("="), NumV(5), <<>>, <<>>) >>),
      Selection(<<>>, <<>>, <<>>, <<RawInjection>>),
      Selection(<<>>, <<>>, <<>>,
                << FilterRec(T("area"), <<"IS", "_", "NULL">>, StrV(T("x")), T("1=1"), <<>>),
                   NotADict >>),
      Selection(<<>>, <<>>, <<>>,
                << FilterRec(<<>>, <<"is", " ", "null">>, NoneV, <<>>, <<>>),
                   FilterRec(<<"branch", ".", "region">>, T("like"), StrV(T("n%")), <<>>, <<>>) >>),
      Selection(<<>>, <<>>, <<>>,
                << FilterRec(<<"sales", ".", "biz_date">>, T("between"),
                             ListV(<<StrV(T("2024-01-01"))>>), <<>>, <<>>),
                   FilterRec(<<"branch", ".", "region">>, <<>>, NoneV, <<>>, <<>>) >>) }

Features(tokens, metrics, dimensions, filters, time_start, time_end, query_text) ==
    [tokens |-> tokens, metrics |-> metrics, dimensions |-> dimensions, filters |-> filters,
     time_start |-> time_start, time_end |-> time_end, query_text |-> query_text]

MidJanuary == <<"2024", "-", "01", "-", "13">>

EndOfMarch == <<"2024", "-", "03", "-", "31">>

\* the features that are enumerated
FeatureSet ==
    { NoFeatures,
      Features(<<>>, <<T("revenue")>>, <<>>, <<>>, <<>>, <<>>, <<>>),
      Features(<<>>, << <<" ", "Revenue", " ", "zong_e">> >>, <<T("date")>>, <<>>, <<>>, <<>>,
               <<>>),
      Features(<<T("area")>>, << <<"total", " ", "income">>, T("case_cnt") >>, <<T(" ")>>,
               << <<"area", " ", "=", " ", "'", "north", "'">> >>, <<>>, <<>>, <<>>),
      Features(<<>>, <<T("zong_ji")>>, <<>>,
               << <<"Region", " ", "IN", " ", "(", "north", ",", " ", "007", ",", ")">> >>,
               MidJanuary, EndOfMarch, <<>>),
      Features(<<>>, <<>>, <<T("channel")>>,
               << <<"txn_date", " ", "BETWEEN", " ", "2024", "-", "01", " ", "AND", " ",
                    "2024", "-", "03">> >>,
               MidJanuary, <<>>, <<>>),
      Features(<<>>, <<T("balance")>>, <<T("date")>>,
               << <<"1", "=", "1", ";", " ", "DROP", " ", "TABLE", " ", "t">> >>,
               <<" ", "2024", "-", "01", " ">>, EndOfMarch, <<>>),
      Features(<<>>, <<T("case_cnt")>>, <<>>,
               << <<"month", "fullwidth_eq", "2024", "-", "01">>, <<"amount", ">=", "5", ".", "50">> >>,
               MidJanuary, EndOfMarch,
               <<"2024", "-", "1", " ", "to", " ", "2024", "nian", "03">>),
      Features(<<>>, <<T("case_cnt")>>, <<>>,
               << <<"yue_fen", " ", "is", " ", "2024", "-", "01">>,
                  <<"branch", ".", "region", "!=", "north">> >>,
               <<>>, <<>>,
               <<"2024", "/", "13", " ", "2023", "-", "5", " ", "2024", "-", "007", " ",
                 "2023", "-", "5">>),
      Features(<<>>, <<>>, <<>>,
               << <<"area", " ", "in", " ", "(", " ", ")">>, <<" ">>, <<"=", "5">> >>,
               <<>>, <<>>, <<>>),
      Features(<<>>, <<T("revenue")>>, <<>>, << <<"id_no", " ", "=", " ", "5">> >>,
               <<>>, <<>>, <<>>) }

InitMerge ==
    /\ pc = "call"
    /\ semantic_layer \in {Layer, NoLayer}
    /\ governance_limits \in [require_time_filter : {FALSE}]
    /\ features \in FeatureSet
    /\ llm_selection \in Selections
    /\ \E matches \in MatchLists, blocked \in {<<>>, <<BlockedIdNo>>} :
           token_hits = [matches |-> matches, blocked_matches |-> blocked]
    /\ enhanced_plan = EmptyPlan
    /\ validation = NoValidation
    /\ compiled = NotCompiled
    /\ executed = NotExecuted
    /\ settings = [db_configured |-> FALSE]
    /\ database = EmptyDatabase
    /\ query_result = NotQueried
    /\ retrieval = NoRetrieval
    /\ requests = <<>>
    /\ calls = <<>>

CallMerge ==
    /\ pc = "call"
    /\ enhanced_plan' = merge_llm_selection_into_plan(llm_selection, token_hits, features,
                                                      semantic_layer)
    /\ pc' = "merged"
    /\ UNCHANGED <<semantic_layer, governance_limits, features, llm_selection, token_hits,
                   validation, compiled, executed, settings,
                   database, query_result, retrieval, requests, calls>>

NextMerge == CallMerge

SpecMerge == InitMerge /\ [][NextMerge]_vars

----------------------------------------------------------------------------
(* app/llm_service.py and app/query_executor.py *)

\* _string_list: trimmed, blank entries dropped
_string_list(value) ==
    LET kept == SelectSeq(value, LAMBDA v : Strip(v) # <<>>)
    IN [i \in DOMAIN kept |-> Strip(kept[i])]

\* _date_or_empty: ten characters with "-" at positions 5 and 8, else ""
_date_or_empty(value) ==
    LET text == Strip(value)
    IN IF /\ Len(text) = 5
          /\ text[1] \in FourDigits /\ text[2] = "-" /\ text[3] \in TwoDigits
          /\ text[4] = "-" /\ text[5] \in TwoDigits
       THEN text ELSE <<>>

\* the features returned for the JSON object the model answered with
extract_sql_features_with_llm(parsed) ==
    Features(_string_list(parsed.tokens), _string_list(parsed.metrics),
             _string_list(parsed.dimensions), _string_list(parsed.filters),
             _date_or_empty(parsed.time_start), _date_or_empty(parsed.time_end), <<>>)

\* units that end, resp. start, with a blank
EndsWithBlank ==
    {" ", "SELECT ", "FROM ", "WHERE ", " AND ", " AS ", " ON ", "LEFT JOIN ", "GROUP BY ",
     ", ", " BETWEEN ", "COUNT(DISTINCT "}

StartsWithBlank == {" ", " AND ", " AS ", " ON ", " BETWEEN ", " IN ("}

\* " <word> " in f" {lowered} " for one of the given words
HasWord(text, words) ==
    \E i \in DOMAIN text :
        /\ LowerUnit(text[i]) \in words
        /\ i = 1 \/ text[i - 1] \in EndsWithBlank
        /\ i = Len(text) \/ text[i + 1] \in StartsWithBlank

BlockedWords == {"insert", "update", "delete", "drop", "alter", "create"}

\* _normalize_single_select_sql: the statement, <<>> for None
_normalize_single_select_sql(sql) ==
    LET text == Strip(sql)
        normalized == IF text # <<>> /\ text[Len(text)] = ";"
                      THEN RStrip(SubSeq(text, 1, Len(text) - 1)) ELSE text
    IN IF normalized = <<>> THEN <<>>
       ELSE IF ";" \in Range(normalized) THEN <<>>
       ELSE IF LowerUnit(normalized[1]) # "select " THEN <<>>
       ELSE IF HasWord(normalized, BlockedWords) THEN <<>>
       ELSE normalized

\* governance_limits.get("max_rows", 1000)
max_rows == 1000

\* SQLQueryExecutor.run: database_up tells whether the driver and the
\* connection are available
run(sql, database_up) ==
    LET normalized_sql == _normalize_single_select_sql(sql)
        limited_sql == IF HasWord(normalized_sql, {"limit"}) THEN normalized_sql
                       ELSE normalized_sql \o <<"\n", "LIMIT ", ToString(max_rows)>>
    IN IF normalized_sql = <<>> THEN [status |-> "rejected", sql |-> <<>>]
       ELSE IF ~database_up THEN [status |-> "failed", sql |-> <<>>]
       ELSE [status |-> "ran", sql |-> limited_sql]

----------------------------------------------------------------------------
(* The database behind SQLQueryExecutor.run: the rows MySQL returns for a  *)
(* statement of the shape compile_sql_from_semantic_plan writes, over the  *)
(* calendar table and the fact table of deposit_balance_daily.  A row of   *)
(* the calendar table is a date, a row of the fact table a date and a      *)
(* balance; dim_branch holds one row per branch_id, so joining it keeps    *)
(* the rows as they are.                                                   *)

\* most rows of the fact table
MaxFactRows == 2

\* the dates of the tables and of the literals, in increasing order
Days == <<"2024-01-01", "2024-01-02", "2024-01-31", "2024-02-01">>

DayRank(d) == CHOOSE i \in DOMAIN Days : Days[i] = d

TableDays == {"2024-01-01", "2024-01-02", "2024-02-01"}

Balances == {5, 7}

\* the values of a result: NULL, a date, a number
SqlNull == [kind |-> "null"]

SqlDate(d) == [kind |-> "date", d |-> d]

SqlNum(n) == [kind |-> "num", n |-> n]


CalendarTable == T("dim_calendar")

FactTable == T("fact_account_balance_daily as bal")

KnownColumns == {"dim_calendar.biz_date", "bal.biz_date", "bal.end_balance"}

\* the value of a column in a joined row
ColumnValue(row, column) ==
    CASE column = "dim_calendar.biz_date" -> row.cal
      [] column = "bal.biz_date" -> row.bal_date
      [] OTHER -> row.bal_end

\* FROM <table>
FromRows(table, db) ==
    IF table = CalendarTable
    THEN LET cal == SelectSeq(Days, LAMBDA d : d \in db.calendar)
         IN [i \in DOMAIN cal |->
                [cal |-> SqlDate(cal[i]), bal_date |-> SqlNull, bal_end |-> SqlNull]]
    ELSE [i \in DOMAIN db.fact |->
             [cal |-> SqlNull, bal_date |-> SqlDate(db.fact[i].biz_date),
              bal_end |-> SqlNum(db.fact[i].end_balance)]]

\* LEFT JOIN <table> ON bal.biz_date = dim_calendar.biz_date: a row without a
\* partner is kept, with NULL in the columns of the joined table
LeftJoin(rows, table, db) ==
    IF table = FactTable
    THEN Flatten([i \in DOMAIN rows |->
             LET partners == SelectSeq(db.fact, LAMBDA f : SqlDate(f.biz_date) = rows[i].cal)
             IN IF partners = <<>> THEN <<rows[i]>>
                ELSE [j \in DOMAIN partners |->
                         [rows[i] EXCEPT !.bal_date = SqlDate(partners[j].biz_date),
                                         !.bal_end = SqlNum(partners[j].end_balance)]]])
    ELSE IF table = CalendarTable
    THEN [i \in DOMAIN rows |->
             IF rows[i].bal_date.kind = "date" /\ rows[i].bal_date.d \in db.calendar
             THEN [rows[i] EXCEPT !.cal = rows[i].bal_date] ELSE rows[i]]
    ELSE rows

\* the table of a line LEFT JOIN <table> ON <condition>
JoinedTable(line) == SubSeq(line, 2, FirstIndex(line, " ON ") - 1)

\* a WHERE line of between predicates: <column> BETWEEN '<lo>' AND '<hi>',
\* joined by AND
RECURSIVE IsBetweenList(_)
IsBetweenList(units) ==
    /\ Len(units) >= 9
    /\ units[1] \in {"dim_calendar.biz_date", "bal.biz_date"}
    /\ units[2] = " BETWEEN " /\ units[3] = "'" /\ units[5] = "'"
    /\ units[6] = " AND " /\ units[7] = "'" /\ units[9] = "'"
    /\ units[4] \in Range(Days) /\ units[8] \in Range(Days)
    /\ \/ Len(units) = 9
       \/ Len(units) >= 10 /\ units[10] = " AND " /\ IsBetweenList(SubSeq(units, 11, Len(units)))

\* the row passes the predicates; a comparison with NULL is not true
RECURSIVE WhereHolds(_, _)
WhereHolds(units, row) ==
    LET v == ColumnValue(row, units[1])
    IN /\ v.kind = "date"
       /\ DayRank(units[4]) <= DayRank(v.d)
       /\ DayRank(v.d) <= DayRank(units[8])
       /\ (Len(units) > 9 => WhereHolds(SubSeq(units, 11, Len(units)), row))

\* the select items this database can compute: a column, SUM(column) and
\* COALESCE(SUM(column), 0), each followed by AS <alias>
IsSelectItem(item) ==
    \/ Len(item) >= 3 /\ item[1] \in KnownColumns /\ item[2] = " AS "
    \/ Len(item) >= 5 /\ item[1] = "SUM(" /\ item[2] = "bal.end_balance"
           /\ item[3] = ")" /\ item[4] = " AS "
    \/ Len(item) >= 7 /\ item[1] = "COALESCE(" /\ item[2] = "SUM(" /\ item[3] = "bal.end_balance"
           /\ item[4] = ")" /\ item[5] = ", 0)" /\ item[6] = " AS "

RECURSIVE SumOf(_)
SumOf(values) == IF values = <<>> THEN 0 ELSE Head(values) + SumOf(Tail(values))

\* SUM over the rows of a group: NULL when no row carries a value
SumColumn(rows) ==
    LET present == SelectSeq(rows, LAMBDA r : r.bal_end.kind = "num")
    IN IF present = <<>> THEN SqlNull
       ELSE SqlNum(SumOf([i \in DOMAIN present |-> present[i].bal_end.n]))

\* the value of a select item for the rows of one group
ItemValue(item, rows) ==
    IF item[1] = "COALESCE("
    THEN (IF SumColumn(rows).kind = "null" THEN SqlNum(0) ELSE SumColumn(rows))
    ELSE IF item[1] = "SUM(" THEN SumColumn(rows)
    ELSE ColumnValue(rows[1], item[1])

RECURSIVE JoinAll(_, _, _)
JoinAll(rows, join_lines, db) ==
    IF join_lines = <<>> THEN rows
    ELSE JoinAll(LeftJoin(rows, JoinedTable(Head(join_lines)), db), Tail(join_lines), db)

LinesOf(lines, keyword) == SelectSeq(lines, LAMBDA l : Head(l) = keyword)

\* the statement has the shape this database computes
IsComputable(sql) ==
    LET lines == SplitLines(sql)
        wheres == LinesOf(lines, "WHERE ")
        groups == LinesOf(lines, "GROUP BY ")
        items == SplitBy(Tail(lines[1]), ", ")
    IN /\ sql # <<>>
       /\ Len(lines) >= 2
       /\ \A i \in DOMAIN lines : lines[i] # <<>>
       /\ Head(lines[1]) = "SELECT " /\ Head(lines[2]) = "FROM "
       /\ Tail(lines[2]) \in {CalendarTable, FactTable}
       /\ \A i \in 3..Len(lines) :
              Head(lines[i]) \in {"LEFT JOIN ", "WHERE ", "GROUP BY ", "LIMIT "}
       /\ \A i \in DOMAIN lines : Head(lines[i]) = "LEFT JOIN " => " ON " \in Range(lines[i])
       /\ \A i \in DOMAIN wheres : IsBetweenList(Tail(wheres[i]))
       /\ \A i \in DOMAIN groups :
              \A u \in Range(Tail(groups[i])) : u \in KnownColumns \cup {", "}
       /\ \A i \in DOMAIN items : IsSelectItem(items[i])
       /\ groups = <<>> => \A i \in DOMAIN items : items[i][1] \in {"SUM(", "COALESCE("}

\* cursor.execute(limited_sql); cursor.fetchall(): one row per group, a row
\* being the values of the select items
cursor_execute(sql, db) ==
    LET lines == SplitLines(sql)
        items == SplitBy(Tail(lines[1]), ", ")
        wheres == LinesOf(lines, "WHERE ")
        groups == LinesOf(lines, "GROUP BY ")
        group_columns ==
            IF groups = <<>> THEN <<>> ELSE SelectSeq(Tail(groups[1]), LAMBDA u : u # ", ")
        joined == JoinAll(FromRows(Tail(lines[2]), db), LinesOf(lines, "LEFT JOIN "), db)
        kept == IF wheres = <<>> THEN joined
                ELSE SelectSeq(joined, LAMBDA r : WhereHolds(Tail(wheres[1]), r))
        KeyOf(r) == [i \in DOMAIN group_columns |-> ColumnValue(r, group_columns[i])]
        keys == _unique_keep_order([i \in DOMAIN kept |-> KeyOf(kept[i])])
        grouped == IF group_columns = <<>> THEN <<kept>>
                   ELSE [k \in DOMAIN keys |-> SelectSeq(kept, LAMBDA r : KeyOf(r) = keys[k])]
    IN IF ~IsComputable(sql) THEN [status |-> "not_computed", rows |-> <<>>]
       ELSE [status |-> "fetched",
             rows |-> [g \in DOMAIN grouped |->
                          [i \in DOMAIN items |-> ItemValue(items[i], grouped[g])]]]

----------------------------------------------------------------------------
(* app/main.py: the chat loop, one SQL request at a time *)

\* the orders in which the embedding model can rank the documents of the
\* entries; <<>>: the embedding call is not configured or fails
Rankings ==
    { <<>>,
      <<1, 2, 3, 4, 5, 6, 7, 8, 9, 10, 11, 12, 13, 14, 15>>,
      <<6, 8, 2, 9, 5, 7, 1, 11, 4, 3, 10, 12, 13, 14, 15>>,
      <<15, 14, 12, 13, 10, 11, 3, 2, 1, 4, 5, 6, 7, 8, 9>> }

\* the index lists the reranker can answer with; <<>>: not configured, failed
\* or nothing returned
RerankResults == { <<>>, <<2, 1>>, <<3, 3, 9, 0>> }

Init ==
    /\ pc = "prompt"
    /\ semantic_layer = Layer
    /\ governance_limits \in [require_time_filter : BOOLEAN]
    /\ settings \in [db_configured : BOOLEAN]
    /\ database = EmptyDatabase
    /\ query_result = NotQueried
    /\ retrieval = NoRetrieval
    /\ requests = <<>>
    /\ calls = <<>>
    /\ features = NoFeatures
    /\ llm_selection = NoSelection
    /\ token_hits = [matches |-> <<>>, blocked_matches |-> <<>>]
    /\ enhanced_plan = EmptyPlan
    /\ validation = NoValidation
    /\ compiled = NotCompiled
    /\ executed = NotExecuted

\* Step A/B: the input is classified as SQL and its features are extracted
ExtractFeatures ==
    /\ pc = "prompt"
    /\ \E parsed \in FeatureSet : features' = extract_sql_features_with_llm(parsed)
    /\ pc' = "features"
    /\ UNCHANGED <<semantic_layer, governance_limits, llm_selection, token_hits, enhanced_plan,
                   validation, compiled, executed, settings,
                   database, query_result, retrieval, requests, calls>>

\* Step C
Match_ ==
    /\ pc = "features"
    /\ \E ranking \in Rankings, results \in RerankResults,
          embedding_failed \in BOOLEAN, reranker_failed \in BOOLEAN :
           /\ retrieval' = Retrieved(embedding_failed, reranker_failed, ranking, results)
           /\ token_hits' = match(features, semantic_layer, retrieval'.ranking,
                                  retrieval'.results)
    /\ pc' = "matched"
    /\ UNCHANGED <<semantic_layer, governance_limits, features, llm_selection, enhanced_plan,
                   validation, compiled, executed, settings,
                   database, query_result, requests, calls>>

\* Step D, with llm_selection = {}
Merge ==
    /\ pc = "matched"
    /\ enhanced_plan' = merge_llm_selection_into_plan(NoSelection, token_hits, features,
                                                      semantic_layer)
    /\ pc' = "merged"
    /\ UNCHANGED <<semantic_layer, governance_limits, features, llm_selection, token_hits,
                   validation, compiled, executed, settings,
                   database, query_result, retrieval, requests, calls>>

\* Step E
Validate ==
    /\ pc = "merged"
    /\ validation' = validate_semantic_plan(enhanced_plan, token_hits, governance_limits,
                                            semantic_layer)
    /\ pc' = "validated"
    /\ UNCHANGED <<semantic_layer, governance_limits, features, llm_selection, token_hits,
                   enhanced_plan, compiled, executed, settings,
                   database, query_result, retrieval, requests, calls>>

\* mutant: compile is called whatever validation returned
CompileGuard_always(validation_) == TRUE

\* if validation.get("ok")
CompileGuard(validation_) == validation_.ok

\* Step F; a ValueError of compile is not caught and ends main
Compile ==
    /\ pc = "validated"
    /\ CompileGuard(validation)
    /\ compiled' = compile_sql_from_semantic_plan(enhanced_plan, semantic_layer)
    /\ pc' = IF compiled'.raised = "" THEN "compiled" ELSE "crashed"
    /\ UNCHANGED <<semantic_layer, governance_limits, features, llm_selection, token_hits,
                   enhanced_plan, validation, executed, settings,
                   database, query_result, retrieval, requests, calls>>

\* generated_sql stays ""
SkipCompile ==
    /\ pc = "validated"
    /\ ~CompileGuard(validation)
    /\ pc' = "compiled"
    /\ UNCHANGED <<semantic_layer, governance_limits, features, llm_selection, token_hits,
                   enhanced_plan, validation, compiled, executed, settings,
                   database, query_result, retrieval, requests, calls>>

\* elif generated_sql and not missing_db_fields
ExecuteGuard == validation.ok /\ compiled.sql # <<>> /\ settings.db_configured

\* Step G
Execute ==
    /\ pc = "compiled"
    /\ ExecuteGuard
    /\ \E database_up \in BOOLEAN : executed' = run(compiled.sql, database_up)
    /\ query_result' = IF executed'.status = "ran" THEN cursor_execute(executed'.sql, database)
                       ELSE NotQueried
    /\ pc' = "reported"
    /\ UNCHANGED <<semantic_layer, governance_limits, features, llm_selection, token_hits,
                   enhanced_plan, validation, compiled, settings,
                   database, retrieval, requests, calls>>

\* the failure summary, or the steps G/H/I are skipped
SkipExecute ==
    /\ pc = "compiled"
    /\ ~ExecuteGuard
    /\ pc' = "reported"
    /\ UNCHANGED <<semantic_layer, governance_limits, features, llm_selection, token_hits,
                   enhanced_plan, validation, compiled, executed, settings,
                   database, query_result, retrieval, requests, calls>>

\* the report is printed and the loop continues: the request's values are dead
Continue ==
    /\ pc = "reported"
    /\ pc' = "prompt"
    /\ features' = NoFeatures
    /\ token_hits' = [matches |-> <<>>, blocked_matches |-> <<>>]
    /\ enhanced_plan' = EmptyPlan
    /\ validation' = NoValidation
    /\ compiled' = NotCompiled
    /\ executed' = NotExecuted
    /\ query_result' = NotQueried
    /\ retrieval' = NoRetrieval
    /\ UNCHANGED <<semantic_layer, governance_limits, llm_selection, settings,
                   database, requests, calls>>

\* EOF, an interrupt or the exit intent
Exit ==
    /\ pc = "prompt"
    /\ pc' = "exited"
    /\ UNCHANGED <<semantic_layer, governance_limits, features, llm_selection, token_hits,
                   enhanced_plan, validation, compiled, executed, settings,
                   database, query_result, retrieval, requests, calls>>

Next ==
    \/ ExtractFeatures \/ Match_ \/ Merge \/ Validate \/ Compile \/ SkipCompile
    \/ Execute \/ SkipExecute \/ Continue \/ Exit

Spec == Init /\ [][Next]_vars

----------------------------------------------------------------------------
(* Properties of validate_semantic_plan and compile_sql_from_semantic_plan *)
(* checked under SpecValidate                                              *)

Validated == pc \in {"validated", "compiled"}

PlanFilterSet == Range(enhanced_plan.selected_filters)

NormalizedOp(f) == Lower(Strip(f.op))

\* the canonical names of the catalog, by kind
CatalogMetricNames ==
    UNION { {Dotted(ds.name, ds.metrics[i].name) : i \in DOMAIN ds.metrics} :
            ds \in Range(semantic_layer.datasets) }

CatalogDimensionNames ==
    UNION { {Dotted(ds.name, ds.dimensions[i].name) : i \in DOMAIN ds.dimensions}
            \cup {Dotted(ds.name, ds.time_dimensions[i].name) : i \in DOMAIN ds.time_dimensions} :
            ds \in Range(semantic_layer.datasets) }
    \cup UNION { {Dotted(e.name, e.fields[i].name) : i \in DOMAIN e.fields} :
                 e \in Range(semantic_layer.entities) }

\* the first selected dataset and its definition in the catalog
PrimaryDataset ==
    IF enhanced_plan.selected_dataset_candidates = <<>> THEN <<>>
    ELSE enhanced_plan.selected_dataset_candidates[1]

PrimaryDef == Lookup(semantic_layer.datasets, PrimaryDataset, EmptyDataset)

\* C2: whenever token_hits.blocked_matches is non-empty, validation returns
\* ok = false and error_codes is exactly ["BLOCKED_MATCH"], whatever the plan,
\* the governance limits and the catalog are.
C2_BlockedMatchOnly ==
    (Validated /\ token_hits.blocked_matches # <<>>)
        => (~validation.ok /\ validation.error_codes = <<"BLOCKED_MATCH">>)

\* a blocked candidate together with a plan that breaks other rules as well
C2_Witness ==
    /\ pc = "validated"
    /\ token_hits.blocked_matches # <<>>
    /\ semantic_layer.present
    /\ governance_limits.require_time_filter
    /\ enhanced_plan.selected_metrics = <<>>
    /\ enhanced_plan.selected_dimensions = <<>>
    /\ BetweenOneValue \in PlanFilterSet
    /\ validation.error_codes = <<"BLOCKED_MATCH">>

\* C4 (as claimed): when validation with the catalog returned ok = true, compile
\* on the same plan and catalog returns SQL and raises none of its three errors.
C4_CompileNeverRaisesAfterOk ==
    (pc = "compiled" /\ validation.ok) => compiled.raised = ""

\* C5 (as claimed): after ok = true every selected metric is a metric canonical
\* name, every selected dimension a dimension / time-dimension / entity-field
\* canonical name, and every dotted filter field, as written, a canonical name.
C5_Original ==
    (Validated /\ semantic_layer.present /\ validation.ok)
        => /\ Range(enhanced_plan.selected_metrics) \subseteq CatalogMetricNames
           /\ Range(enhanced_plan.selected_dimensions) \subseteq CatalogDimensionNames
           /\ \A f \in PlanFilterSet :
                  (f.is_dict /\ HasDot(f.field))
                      => f.field \in CatalogMetricNames \cup CatalogDimensionNames

\* C5 (amended): the same, the filter field being taken without its surrounding
\* blanks: every filter field whose trimmed text is dotted is, once trimmed, a
\* canonical name of the catalog.
C5_ResolvesInCatalog ==
    (Validated /\ semantic_layer.present /\ validation.ok)
        => /\ Range(enhanced_plan.selected_metrics) \subseteq CatalogMetricNames
           /\ Range(enhanced_plan.selected_dimensions) \subseteq CatalogDimensionNames
           /\ \A f \in PlanFilterSet :
                  (f.is_dict /\ HasDot(Strip(f.field)))
                      => Strip(f.field) \in CatalogMetricNames \cup CatalogDimensionNames

\* an accepted plan with a metric, a dimension and a dotted filter field
C5_Witness ==
    /\ pc = "validated"
    /\ semantic_layer.present
    /\ validation.ok
    /\ enhanced_plan.selected_metrics # <<>>
    /\ enhanced_plan.selected_dimensions # <<>>
    /\ \E f \in PlanFilterSet : f.is_dict /\ HasDot(f.field)

\* C6 (as claimed): after ok = true the owner of every selected metric and
\* dimension is the primary dataset or an entity listed in its own joins.
C6_OwnersPrimaryOrJoined ==
    (Validated /\ semantic_layer.present /\ validation.ok)
        => \A name \in Range(enhanced_plan.selected_metrics)
                       \cup Range(enhanced_plan.selected_dimensions) :
               \/ Owner(name) = PrimaryDataset
               \/ \E i \in DOMAIN PrimaryDef.joins : PrimaryDef.joins[i].entity = Owner(name)

\* a filter whose operator is between and whose value is not a 2-element list
BadBetween(f) ==
    f.is_dict /\ NormalizedOp(f) = T("between")
        /\ (f.value.kind # "list" \/ Len(f.value.items) # 2)

\* C8 (as claimed): every call on a plan with such a between filter returns
\* ok = false with INVALID_FILTER_BETWEEN among the codes.
C8_Original ==
    (Validated /\ \E f \in PlanFilterSet : BadBetween(f))
        => (~validation.ok /\ "INVALID_FILTER_BETWEEN" \in Range(validation.error_codes))

\* C8 (amended): this holds for every call made with the catalog and without a
\* blocked candidate.
C8_BetweenArity ==
    (Validated /\ semantic_layer.present /\ token_hits.blocked_matches = <<>>
         /\ \E f \in PlanFilterSet : BadBetween(f))
        => (~validation.ok /\ "INVALID_FILTER_BETWEEN" \in Range(validation.error_codes))

\* the 1-element between filter of an otherwise acceptable plan is rejected
C8_Witness ==
    /\ pc = "validated"
    /\ semantic_layer.present
    /\ token_hits.blocked_matches = <<>>
    /\ enhanced_plan.selected_filters = <<BetweenOneValue>>
    /\ validation.error_codes = <<"INVALID_FILTER_BETWEEN">>

\* C9 (as claimed): the text compiled from a plan that passed validation is a
\* single SELECT statement without LIMIT and without semicolon.
C9_SingleSelectNoLimit ==
    (pc = "compiled" /\ validation.ok /\ compiled.raised = "")
        => /\ Head(compiled.sql) = "SELECT "
           /\ ";" \notin Range(compiled.sql)
           /\ "LIMIT" \notin Range(compiled.sql)

CompiledLines == SplitLines(compiled.sql)

\* the compiled text has the calendar-skeleton form: FROM <calendar table>
SkeletonApplied ==
    /\ Len(CompiledLines) >= 3
    /\ CompiledLines[2]
           = <<"FROM ">> \o Lookup(semantic_layer.entities, T("calendar"), EmptyEntity).table

\* the GROUP BY line of the compiled text, <<>> when there is none
GroupByLine ==
    LET last == CompiledLines[Len(CompiledLines)]
    IN IF Head(last) = "GROUP BY " THEN Tail(last) ELSE <<>>

\* the primary dataset joins the calendar entity
PrimaryJoinsCalendar ==
    \E i \in DOMAIN PrimaryDef.joins :
        /\ PrimaryDef.joins[i].entity = T("calendar")
        /\ PrimaryDef.joins[i].on # <<>>
        /\ HasKey(semantic_layer.entities, T("calendar"))

\* the primary dataset's first time-dimension expression is grouped by
GroupedByOwnTime ==
    /\ PrimaryDef.time_dimensions # <<>>
    /\ PrimaryDef.time_dimensions[1].expr # <<>>
    /\ PrimaryDef.time_dimensions[1].expr[1] \in Range(GroupByLine)

\* C10 (as claimed): the rewrite is applied exactly for the plans whose primary
\* dataset joins the calendar entity and is grouped by its own time dimension,
\* whatever the dataset's name.
C10_Original ==
    (pc = "compiled" /\ compiled.raised = "")
        => (SkeletonApplied <=> (PrimaryJoinsCalendar /\ GroupedByOwnTime))

\* C10 (amended): the rewrite is applied exactly for the plans whose primary
\* dataset is named deposit_balance_daily, joins the calendar entity and is
\* grouped by its own time dimension.
C10_SkeletonOnlyDepositDaily ==
    (pc = "compiled" /\ compiled.raised = "")
        => (SkeletonApplied
                <=> (/\ PrimaryDataset = T("deposit_balance_daily")
                     /\ PrimaryJoinsCalendar
                     /\ GroupedByOwnTime))

\* deposit_balance_daily grouped by its time dimension compiles to the skeleton
C10_Witness ==
    /\ pc = "compiled"
    /\ compiled.raised = ""
    /\ PrimaryDataset = T("deposit_balance_daily")
    /\ GroupedByOwnTime
    /\ SkeletonApplied

----------------------------------------------------------------------------
(* Properties of merge_llm_selection_into_plan, checked under SpecMerge *)

Merged == pc = "merged"

MetricCandidates == Range(_canonical_candidates(token_hits.matches, "metric"))

DimensionCandidates == Range(_dimension_candidates(token_hits.matches))

DatasetCandidates == Range(_dataset_candidates(token_hits.matches))

SelectedOf(plan) ==
    <<plan.selected_metrics, plan.selected_dimensions, plan.selected_dataset_candidates>>

\* the selection without the values that are not written exactly as a candidate
WithoutNonCandidates ==
    [llm_selection EXCEPT
        !.selected_metrics = SelectSeq(@, LAMBDA v : v \in MetricCandidates),
        !.selected_dimensions = SelectSeq(@, LAMBDA v : v \in DimensionCandidates),
        !.selected_dataset_candidates = SelectSeq(@, LAMBDA v : v \in DatasetCandidates)]

\* the selection without the values whose trimmed form is not a candidate
WithoutUntrimmedNonCandidates ==
    [llm_selection EXCEPT
        !.selected_metrics = SelectSeq(@, LAMBDA v : Strip(v) \in MetricCandidates),
        !.selected_dimensions = SelectSeq(@, LAMBDA v : Strip(v) \in DimensionCandidates),
        !.selected_dataset_candidates = SelectSeq(@, LAMBDA v : Strip(v) \in DatasetCandidates)]

\* C1 as stated: removing from the proposer's selected_metrics,
\* selected_dimensions and selected_dataset_candidates every value that is not
\* a candidate name leaves the three merged lists unchanged.
C1_Original ==
    Merged =>
        SelectedOf(enhanced_plan)
            = SelectedOf(merge_llm_selection_into_plan(WithoutNonCandidates, token_hits,
                                                       features, semantic_layer))

\* C1: removing from the proposer's selected_metrics, selected_dimensions and
\* selected_dataset_candidates every value whose whitespace-trimmed form is
\* not a candidate name leaves the three merged lists unchanged.
C1_AllowListsProposer ==
    Merged =>
        SelectedOf(enhanced_plan)
            = SelectedOf(merge_llm_selection_into_plan(WithoutUntrimmedNonCandidates,
                                                       token_hits, features, semantic_layer))

\* a merged plan whose metrics are the proposer's choice among the candidates,
\* the proposer having also named a metric that is no candidate
C1_Witness ==
    /\ Merged
    /\ \E v \in Range(llm_selection.selected_metrics) : Strip(v) \notin MetricCandidates
    /\ \E v \in Range(llm_selection.selected_metrics) : Strip(v) \in MetricCandidates
    /\ Range(enhanced_plan.selected_metrics) # MetricCandidates
    /\ enhanced_plan.selected_metrics # <<>>

\* C7 as stated: every merged metric is an allowed metric candidate and every
\* merged dimension is an allowed dimension or field candidate.
C7_Original ==
    Merged =>
        /\ Range(enhanced_plan.selected_metrics) \subseteq MetricCandidates
        /\ Range(enhanced_plan.selected_dimensions) \subseteq DimensionCandidates

FirstTimeDimensionOfPrimary == FirstNamedTimeDimension(PrimaryDataset, semantic_layer)

AsksForAMetric == \E i \in DOMAIN features.metrics : Strip(features.metrics[i]) # <<>>

AsksForADimension == \E i \in DOMAIN features.dimensions : Strip(features.dimensions[i]) # <<>>

\* C7: every merged metric is an allowed metric candidate or, when there is no
\* metric candidate at all and the features ask for a metric, a metric of the
\* catalog; every merged dimension is an allowed dimension or field candidate
\* or the primary dataset's first time dimension, the latter only in place of
\* the candidate calendar.biz_date or when there is no dimension candidate and
\* the features ask for a dimension.
C7_CandidatesOrInferred ==
    Merged =>
        /\ \A m \in Range(enhanced_plan.selected_metrics) :
               \/ m \in MetricCandidates
               \/ /\ MetricCandidates = {}
                  /\ AsksForAMetric
                  /\ semantic_layer.present
                  /\ m \in CatalogMetricNames
        /\ \A d \in Range(enhanced_plan.selected_dimensions) :
               \/ d \in DimensionCandidates
               \/ /\ d = FirstTimeDimensionOfPrimary
                  /\ semantic_layer.present
                  /\ \/ CalendarBizDate \in DimensionCandidates
                     \/ DimensionCandidates = {} /\ AsksForADimension

\* a merged plan with a metric inferred from the features and a time
\* dimension that is no candidate
C7_Witness ==
    /\ Merged
    /\ \E m \in Range(enhanced_plan.selected_metrics) : m \notin MetricCandidates
    /\ \E d \in Range(enhanced_plan.selected_dimensions) : d \notin DimensionCandidates

----------------------------------------------------------------------------
(* Properties of the request pipeline of main, checked under Spec *)

\* the positions of one request, in program order
PipelineOrder ==
    { <<"prompt", "features">>, <<"features", "matched">>, <<"matched", "merged">>,
      <<"merged", "validated">>, <<"validated", "compiled">>, <<"validated", "crashed">>,
      <<"compiled", "reported">>, <<"reported", "prompt">>, <<"prompt", "exited">> }

\* compile was called for the request
CompileCalled == compiled # NotCompiled

\* SQLQueryExecutor.run was called for the request
RunCalled == executed # NotExecuted

\* C3: a request passes match, merge, validate and compile in this order;
\* compile is only called on a plan for which validate returned ok = true, the
\* plan being the one merge built from the candidates of match; and when
\* validation fails no SQL text exists and none is handed to the executor.
C3_CompileOnlyAfterOk ==
    /\ [][pc' # pc => <<pc, pc'>> \in PipelineOrder]_vars
    /\ [][(compiled' # compiled /\ compiled' # NotCompiled)
              => /\ pc = "validated"
                 /\ validation.ok
                 /\ validation = validate_semantic_plan(enhanced_plan, token_hits,
                                                        governance_limits, semantic_layer)
                 /\ enhanced_plan = merge_llm_selection_into_plan(NoSelection, token_hits,
                                                                  features, semantic_layer)
                 /\ compiled' = compile_sql_from_semantic_plan(enhanced_plan, semantic_layer)]_vars
    /\ [](CompileCalled => validation.ok)
    /\ []((pc \in {"compiled", "reported"} /\ ~validation.ok)
              => (~CompileCalled /\ compiled.sql = <<>> /\ ~RunCalled))
    /\ [](RunCalled => (validation.ok /\ compiled.raised = "" /\ compiled.sql # <<>>))

\* a request for which match found candidates and validate returned ok = false
\* has gone through the whole handler, with the database configured
C3_Witness ==
    /\ pc = "reported"
    /\ token_hits.matches # <<>>
    /\ validation = validate_semantic_plan(enhanced_plan, token_hits, governance_limits,
                                           semantic_layer)
    /\ ~validation.ok
    /\ settings.db_configured

----------------------------------------------------------------------------
(* The compiled statement of a deposit_balance_daily plan, run over any    *)
(* calendar table and fact table                                           *)

DepositBizDate == <<"deposit_balance_daily", ".", "biz_date">>

DepositEndBalance == <<"deposit_balance_daily", ".", "deposit_end_balance">>

BetweenJanuaryOn(field) == FilterRec(field, T("between"), January, <<>>, <<>>)

QueryDimensionLists == { <<>>, <<DepositBizDate>>, <<DepositBizDate, CalendarBizDate>> }

QueryFilterLists ==
    { <<>>, <<BetweenJanuaryOn(DepositBizDate)>>, <<BetweenJanuaryOn(CalendarBizDate)>> }

FactRows == [biz_date : TableDays, end_balance : Balances]

Databases == [calendar : SUBSET TableDays, fact : SeqUpTo(FactRows, MaxFactRows)]

InitQuery ==
    /\ pc = "call"
    /\ semantic_layer = Layer
    /\ governance_limits = [require_time_filter |-> FALSE]
    /\ features = NoFeatures
    /\ llm_selection = NoSelection
    /\ token_hits = [matches |-> <<>>, blocked_matches |-> <<>>]
    /\ \E d \in QueryDimensionLists, f \in QueryFilterLists :
           enhanced_plan = Plan(<<DepositEndBalance>>, d, f, <<SkeletonDataset>>, NoTimeAxis)
    /\ validation = NoValidation
    /\ compiled = NotCompiled
    /\ executed = NotExecuted
    /\ settings = [db_configured |-> TRUE]
    /\ database \in Databases
    /\ query_result = NotQueried
    /\ retrieval = NoRetrieval
    /\ requests = <<>>
    /\ calls = <<>>

NextQuery == CallValidate \/ CallCompile \/ Execute

SpecQuery == InitQuery /\ [][NextQuery]_vars

(* Properties of the calendar skeleton, checked under SpecQuery *)

\* the rows have been fetched for a statement written with the skeleton
SkeletonQueried == pc = "reported" /\ query_result.status = "fetched" /\ SkeletonApplied

\* the between filters of the plan on a date field
DateFilters ==
    SelectSeq(enhanced_plan.selected_filters,
              LAMBDA f : f.field \in {DepositBizDate, CalendarBizDate})

\* the calendar periods of the requested time range
RequestedPeriods ==
    { c \in database.calendar :
        \A i \in DOMAIN DateFilters :
            /\ DayRank(DateFilters[i].value.items[1].s[1]) <= DayRank(c)
            /\ DayRank(c) <= DayRank(DateFilters[i].value.items[2].s[1]) }

HasFactRow(c) == \E i \in DOMAIN database.fact : database.fact[i].biz_date = c

\* the value of the metric, the last select item, in a fetched row
MetricValue(row) == row[Len(row)]

\* C11: when the calendar-skeleton rewrite applies, the statement returns
\* exactly one row per calendar period of the requested time range, and a
\* period without a fact row has a row with metric value 0.
C11_OneRowPerCalendarPeriod ==
    SkeletonQueried =>
        /\ Len(query_result.rows) = Cardinality(RequestedPeriods)
        /\ Cardinality({i \in DOMAIN query_result.rows :
                            MetricValue(query_result.rows[i]) = SqlNum(0)})
               = Cardinality({c \in RequestedPeriods : ~HasFactRow(c)})

----------------------------------------------------------------------------
(* Direct calls of TokenMatcher.match on features that spell an alias of   *)
(* the catalog, with every outcome of the embedding and reranker calls     *)

\* the named items of the catalog with their canonical name, as
\* _build_entries_and_indexes walks them
CatalogItems ==
    UNION { UNION { { [canonical_name |-> Dotted(e.name, f.name), allowed |-> TRUE, item |-> f]
                        : f \in Range(e.fields) },
                    { [canonical_name |-> Dotted(e.name, f.name), allowed |-> FALSE, item |-> f]
                        : f \in Range(e.sensitive_fields) } }
              : e \in Range(Layer.entities) }
    \cup
    UNION { { [canonical_name |-> Dotted(d.name, f.name), allowed |-> TRUE, item |-> f]
                : f \in Range(d.time_dimensions) \cup Range(d.metrics) \cup Range(d.dimensions) }
              : d \in Range(Layer.datasets) }

\* the name and the synonyms of an item
NamedAliases(item) == {item.name} \cup Range(item.synonyms)

\* an alias as a request can write it: as it is, in upper case, and with
\* blanks around it
Spellings(alias) ==
    { alias, Upper(alias), <<" ">> \o alias, <<" ", " ">> \o Upper(alias) \o <<" ">> }

AliasSpellings == UNION { Spellings(a) : a \in UNION { NamedAliases(c.item) : c \in CatalogItems } }

\* the value lists that hold a spelling: alone, after an unknown word, and
\* before a blank value
SpelledLists == UNION { { <<v>>, <<T("zong_ji"), v>>, <<v, T(" ")>> } : v \in AliasSpellings }

MatchKeys == {"tokens", "metrics", "dimensions"}

MatchFeatureSet == { [NoFeatures EXCEPT ![key] = values] : key \in MatchKeys, values \in SpelledLists }

InitMatch ==
    /\ pc = "call"
    /\ semantic_layer = Layer
    /\ governance_limits = [require_time_filter |-> FALSE]
    /\ features \in MatchFeatureSet
    /\ llm_selection = NoSelection
    /\ token_hits = [matches |-> <<>>, blocked_matches |-> <<>>]
    /\ enhanced_plan = EmptyPlan
    /\ validation = NoValidation
    /\ compiled = NotCompiled
    /\ executed = NotExecuted
    /\ settings = [db_configured |-> FALSE]
    /\ database = EmptyDatabase
    /\ query_result = NotQueried
    /\ retrieval = NoRetrieval
    /\ requests = <<>>
    /\ calls = <<>>

CallMatch ==
    /\ pc = "call"
    /\ \E ranking \in Rankings, results \in RerankResults,
          embedding_failed \in BOOLEAN, reranker_failed \in BOOLEAN :
           /\ retrieval' = Retrieved(embedding_failed, reranker_failed, ranking, results)
           /\ token_hits' = match(features, semantic_layer, retrieval'.ranking,
                                  retrieval'.results)
    /\ pc' = "matched"
    /\ UNCHANGED <<semantic_layer, governance_limits, features, llm_selection, enhanced_plan,
                   validation, compiled, executed, settings,
                   database, query_result, requests, calls>>

NextMatch == CallMatch

SpecMatch == InitMatch /\ [][NextMatch]_vars

(* Properties of match, checked under SpecMatch *)

\* the text is the alias up to letter case and surrounding blanks
SpellsAlias(value, alias) == Lower(Strip(value)) = Lower(Strip(alias))

\* the features hold the alias in tokens, metrics or dimensions
FeaturesSpell(alias) ==
    \E key \in MatchKeys : \E i \in DOMAIN features[key] : SpellsAlias(features[key][i], alias)

\* the list holds an exact candidate of the canonical name
HasExact(candidates, canonical_name) ==
    \E i \in DOMAIN candidates :
        /\ candidates[i].canonical_name = canonical_name
        /\ candidates[i].source = "exact"

\* a request that writes the alias of an item in upper case between blanks
UpperCaseRequest(c) ==
    \E a \in NamedAliases(c.item), key \in MatchKeys :
        <<" ", " ">> \o Upper(a) \o <<" ">> \in Range(features[key])

\* C12: for every catalog entry F and every alias A of F (its name or a
\* synonym), features whose tokens, metrics or dimensions hold A in any letter
\* case and between blanks make match return a candidate with canonical name F
\* and source exact: in matches when F is allowed, in blocked_matches otherwise.
C12_AliasGivesExactCandidate ==
    pc = "matched" =>
        \A c \in CatalogItems : \A a \in NamedAliases(c.item) :
            FeaturesSpell(a) =>
                HasExact(IF c.allowed THEN token_hits.matches ELSE token_hits.blocked_matches,
                         c.canonical_name)

\* the alias of a sensitive field, written in upper case between blanks, has
\* given a blocked exact candidate and no allowed one
C12_Witness ==
    /\ pc = "matched"
    /\ \E c \in CatalogItems :
           /\ ~c.allowed
           /\ UpperCaseRequest(c)
           /\ HasExact(token_hits.blocked_matches, c.canonical_name)
           /\ ~HasExact(token_hits.matches, c.canonical_name)

\* the exact-alias candidates of the request: <<matches, blocked_matches>>
ExactOfRequest == _build_exact_matches(features, _build_entries_and_indexes(semantic_layer))

\* the candidates of the embedding ranking, first top_k, in ranking order
EmbeddingOfRequest ==
    LET entries == _build_entries_and_indexes(semantic_layer)
        top == Take(retrieval.ranking, top_k)
    IN [i \in DOMAIN top |-> entries[top[i]]]

\* the canonical names of the candidates that are not exact, in order
RetrievedNames(candidates) ==
    LET kept == SelectSeq(candidates, LAMBDA m : m.source # "exact")
    IN [i \in DOMAIN kept |-> kept[i].canonical_name]

\* the canonical names the embedding ranking adds to the exact candidates
AddedByEmbedding(exact, allowed) ==
    LET kept == SelectSeq(EmbeddingOfRequest,
                          LAMBDA e : /\ e.allowed = allowed
                                     /\ \A i \in DOMAIN exact :
                                            exact[i].canonical_name # e.canonical_name)
    IN _unique_keep_order([i \in DOMAIN kept |-> kept[i].canonical_name])

ExactOnlyResult ==
    /\ token_hits.matches = ExactOfRequest[1]
    /\ token_hits.blocked_matches = ExactOfRequest[2]

----------------------------------------------------------------------------
(* The fallback of merge_llm_selection_into_plan, checked under SpecMerge *)

\* the list holds every name of the source once, ordered by first occurrence
InFirstOccurrenceOrder(list, source) ==
    LET FirstAt(name) == CHOOSE i \in DOMAIN source :
                             /\ source[i] = name
                             /\ \A j \in 1..(i - 1) : source[j] # name
    IN /\ Range(list) = Range(source)
       /\ \A i, j \in DOMAIN list : i < j => FirstAt(list[i]) < FirstAt(list[j])

\* the canonical names of the allowed metric matches, in match order
MetricMatchNames ==
    LET kept == SelectSeq(token_hits.matches,
                          LAMBDA m : m.object_type = "metric" /\ m.allowed
                                         /\ m.canonical_name # <<>>)
    IN [i \in DOMAIN kept |-> kept[i].canonical_name]

\* the dataset names of the matches, in match order
DatasetMatchNames ==
    LET kept == SelectSeq(token_hits.matches, LAMBDA m : m.dataset # <<>>)
    IN [i \in DOMAIN kept |-> kept[i].dataset]

\* what the allow-list leaves of the proposer's values
AllowListed(candidates, values) ==
    SelectSeq(values, LAMBDA v : Strip(v) \in Range(candidates) /\ Strip(v) # <<>>)

PlanPrimaryDataset ==
    IF enhanced_plan.selected_dataset_candidates = <<>> THEN <<>>
    ELSE enhanced_plan.selected_dataset_candidates[1]

\* dimension scoping as the planner applies it to a list of dimensions
DimensionScoping(dimensions) ==
    _canonicalize_dimensions_for_dataset(
        _filter_dimensions_for_dataset(dimensions, PlanPrimaryDataset, semantic_layer),
        PlanPrimaryDataset, semantic_layer)

\* C14: when the allow-listed proposer selection of metrics (resp. datasets)
\* is empty and the candidate list is not, the plan's selected_metrics (resp.
\* selected_dataset_candidates) is the full candidate list in match order
\* without duplicates; for dimensions the fallback is the full dimension
\* candidate list, then restricted by dimension scoping.
C14_FallbackToCandidates ==
    pc = "merged" =>
        /\ (MetricMatchNames # <<>>
              /\ AllowListed(MetricMatchNames, llm_selection.selected_metrics) = <<>>)
               => InFirstOccurrenceOrder(enhanced_plan.selected_metrics, MetricMatchNames)
        /\ (DatasetMatchNames # <<>>
              /\ AllowListed(DatasetMatchNames, llm_selection.selected_dataset_candidates) = <<>>)
               => InFirstOccurrenceOrder(enhanced_plan.selected_dataset_candidates,
                                         DatasetMatchNames)
        /\ (_dimension_candidates(token_hits.matches) # <<>>
              /\ AllowListed(_dimension_candidates(token_hits.matches),
                             llm_selection.selected_dimensions) = <<>>)
               => enhanced_plan.selected_dimensions
                      = DimensionScoping(_dimension_candidates(token_hits.matches))

\* the proposer selected only a metric that is no candidate; the plan holds
\* the metric candidates, and the dimension candidates as scoping rewrote them
C14_Witness ==
    /\ pc = "merged"
    /\ llm_selection.selected_metrics # <<>>
    /\ AllowListed(MetricMatchNames, llm_selection.selected_metrics) = <<>>
    /\ MetricMatchNames # <<>>
    /\ enhanced_plan.selected_metrics = MetricMatchNames
    /\ enhanced_plan.selected_dataset_candidates = DatasetMatchNames
    /\ enhanced_plan.selected_dimensions # <<>>
    /\ enhanced_plan.selected_dimensions # _dimension_candidates(token_hits.matches)
    /\ enhanced_plan.selected_dimensions
           = DimensionScoping(_dimension_candidates(token_hits.matches))

----------------------------------------------------------------------------
(* Several requests over one shared catalog: every request runs match,     *)
(* merge, validate and compile on values of its own, and the steps of      *)
(* different requests interleave in any order.  The functions hold no      *)
(* module-level or instance state that a call writes.                      *)

NumRequests == 2

\* the features of the concurrent requests: a metric, a metric by day with
\* time bounds, and a request that names a sensitive field
RevenueRequest == Features(<<>>, <<T("revenue")>>, <<>>, <<>>, <<>>, <<>>, <<>>)

BalanceByDayRequest ==
    Features(<<T("area")>>, <<T("balance")>>, <<T("date")>>, <<>>, MidJanuary, EndOfMarch, <<>>)

SensitiveRequest == Features(<<T("ID")>>, <<T("case_cnt")>>, <<>>, <<>>, <<>>, <<>>, <<>>)

\* an order in which the embedding model ranks the documents
ConcurrentRanking == <<6, 8, 2, 9, 5, 7, 1, 11, 4, 3, 10, 12, 13, 14, 15>>

\* a request that has its features and has called nothing yet; ranking and
\* results are what the embedding model and the reranker answer to it
NewRequest(request_features, ranking, results) ==
    [pc |-> "features", features |-> request_features, ranking |-> ranking,
     results |-> results, token_hits |-> [matches |-> <<>>, blocked_matches |-> <<>>],
     enhanced_plan |-> EmptyPlan, validation |-> NoValidation, compiled |-> NotCompiled]

\* the requests that are served, with and without an embedding model
ConcurrentRequests ==
    { NewRequest(RevenueRequest, <<>>, <<>>),
      NewRequest(RevenueRequest, ConcurrentRanking, <<>>),
      NewRequest(BalanceByDayRequest, <<>>, <<>>),
      NewRequest(SensitiveRequest, ConcurrentRanking, <<>>) }

\* the values of request r after a call: the result is bound to a local name
\* of the request's own frame
StoreResult_shared(reqs, r, name, value, position) ==
    [q \in DOMAIN reqs |->
        IF q = r THEN [reqs[q] EXCEPT ![name] = value, !.pc = position]
        ELSE [reqs[q] EXCEPT ![name] = value]]

StoreResult(reqs, r, name, value, position) ==
    [reqs EXCEPT ![r] = [reqs[r] EXCEPT ![name] = value, !.pc = position]]

InitConcurrent ==
    /\ pc = "serving"
    /\ semantic_layer = Layer
    /\ governance_limits = [require_time_filter |-> FALSE]
    /\ features = NoFeatures
    /\ llm_selection = NoSelection
    /\ token_hits = [matches |-> <<>>, blocked_matches |-> <<>>]
    /\ enhanced_plan = EmptyPlan
    /\ validation = NoValidation
    /\ compiled = NotCompiled
    /\ executed = NotExecuted
    /\ settings = [db_configured |-> FALSE]
    /\ database = EmptyDatabase
    /\ query_result = NotQueried
    /\ retrieval = NoRetrieval
    /\ requests \in [1..NumRequests -> ConcurrentRequests]
    /\ calls = <<>>

RequestUnchanged ==
    UNCHANGED <<pc, semantic_layer, governance_limits, features, llm_selection, token_hits,
                enhanced_plan, validation, compiled, executed, settings, database, query_result,
                retrieval, calls>>

RequestMatch(r) ==
    /\ requests[r].pc = "features"
    /\ requests' = StoreResult(requests, r, "token_hits",
                               match(requests[r].features, semantic_layer, requests[r].ranking,
                                     requests[r].results),
                               "matched")
    /\ RequestUnchanged

RequestMerge(r) ==
    /\ requests[r].pc = "matched"
    /\ requests' = StoreResult(requests, r, "enhanced_plan",
                               merge_llm_selection_into_plan(NoSelection, requests[r].token_hits,
                                                             requests[r].features,
                                                             semantic_layer),
                               "merged")
    /\ RequestUnchanged

RequestValidate(r) ==
    /\ requests[r].pc = "merged"
    /\ requests' = StoreResult(requests, r, "validation",
                               validate_semantic_plan(requests[r].enhanced_plan,
                                                      requests[r].token_hits, governance_limits,
                                                      semantic_layer),
                               "validated")
    /\ RequestUnchanged

RequestCompile(r) ==
    /\ requests[r].pc = "validated"
    /\ requests[r].validation.ok
    /\ requests' = StoreResult(requests, r, "compiled",
                               compile_sql_from_semantic_plan(requests[r].enhanced_plan,
                                                              semantic_layer),
                               "compiled")
    /\ RequestUnchanged

\* validation failed: generated_sql stays ""
RequestSkipCompile(r) ==
    /\ requests[r].pc = "validated"
    /\ ~requests[r].validation.ok
    /\ requests' = StoreResult(requests, r, "compiled", NotCompiled, "compiled")
    /\ RequestUnchanged

NextConcurrent ==
    \E r \in DOMAIN requests :
        \/ RequestMatch(r)
        \/ RequestMerge(r)
        \/ RequestValidate(r)
        \/ RequestCompile(r)
        \/ RequestSkipCompile(r)

SpecConcurrent == InitConcurrent /\ [][NextConcurrent]_vars

(* Properties of concurrent requests, checked under SpecConcurrent *)

\* what the request obtains when it runs alone
AloneHits(q) == match(q.features, Layer, q.ranking, q.results)

AlonePlan(q) == merge_llm_selection_into_plan(NoSelection, AloneHits(q), q.features, Layer)

AloneValidation(q) ==
    validate_semantic_plan(AlonePlan(q), AloneHits(q), governance_limits, Layer)

AloneCompiled(q) ==
    IF AloneValidation(q).ok THEN compile_sql_from_semantic_plan(AlonePlan(q), Layer)
    ELSE NotCompiled

RequestReached(q, positions) == q.pc \in positions

----------------------------------------------------------------------------
(* validate_semantic_plan and compile_sql_from_semantic_plan called twice  *)
(* on the same objects: the caller keeps the plan, the candidates, the     *)
(* governance limits and the catalog, and hands them to the next call as   *)
(* the previous call left them.                                            *)

\* the calls of each function on the same inputs
MaxCalls == 2

\* the arguments as validate_semantic_plan leaves them: it reads them with
\* .get() and iteration and writes only its own errors and error_codes lists;
\* this variant pops require_time_filter from the governance limits
InputsAfterValidate_popping(plan, hits, governance, layer) ==
    <<plan, hits, [governance EXCEPT !.require_time_filter = FALSE], layer>>

InputsAfterValidate(plan, hits, governance, layer) == <<plan, hits, governance, layer>>

\* the arguments as compile_sql_from_semantic_plan leaves them: it reads the
\* plan and builds the lookup and the part lists anew in every call; this
\* variant consumes the plan's filters
InputsAfterCompile_consuming(plan, layer) == <<[plan EXCEPT !.selected_filters = <<>>], layer>>

InputsAfterCompile(plan, layer) == <<plan, layer>>

CallsNamed(name) == SelectSeq(calls, LAMBDA c : c.name = name)

InitRepeat ==
    /\ pc = "call"
    /\ semantic_layer \in {Layer, NoLayer}
    /\ governance_limits \in [require_time_filter : BOOLEAN]
    /\ features = NoFeatures
    /\ llm_selection = NoSelection
    /\ \E blocked \in {<<>>, <<BlockedIdNo>>} :
           token_hits = [matches |-> <<>>, blocked_matches |-> blocked]
    /\ \E m \in SeqUpTo(PlanMetricNames, MaxMetrics), d \in PlanDimensionLists,
          ds \in PlanDatasetLists, f \in PlanFilterLists :
           enhanced_plan = Plan(m, d, f, ds, NoTimeAxis)
    /\ validation = NoValidation
    /\ compiled = NotCompiled
    /\ executed = NotExecuted
    /\ settings = [db_configured |-> FALSE]
    /\ database = EmptyDatabase
    /\ query_result = NotQueried
    /\ retrieval = NoRetrieval
    /\ requests = <<>>
    /\ calls = <<>>

\* one call of validate_semantic_plan
RepeatValidate ==
    /\ pc = "call"
    /\ LET inputs == <<enhanced_plan, token_hits, governance_limits, semantic_layer>>
           result == validate_semantic_plan(enhanced_plan, token_hits, governance_limits,
                                            semantic_layer)
           after == InputsAfterValidate(enhanced_plan, token_hits, governance_limits,
                                        semantic_layer)
       IN /\ calls' = Append(calls, [name |-> "validate", inputs |-> inputs,
                                     result |-> result])
          /\ validation' = result
          /\ enhanced_plan' = after[1]
          /\ token_hits' = after[2]
          /\ governance_limits' = after[3]
          /\ semantic_layer' = after[4]
    /\ pc' = IF Len(CallsNamed("validate")) + 1 < MaxCalls THEN "call" ELSE "validated"
    /\ UNCHANGED <<features, llm_selection, compiled, executed, settings, database,
                   query_result, retrieval, requests>>

\* one call of compile_sql_from_semantic_plan, made whatever validation said
RepeatCompile ==
    /\ pc = "validated"
    /\ semantic_layer.present
    /\ LET inputs == <<enhanced_plan, semantic_layer>>
           result == compile_sql_from_semantic_plan(enhanced_plan, semantic_layer)
           after == InputsAfterCompile(enhanced_plan, semantic_layer)
       IN /\ calls' = Append(calls, [name |-> "compile", inputs |-> inputs, result |-> result])
          /\ compiled' = result
          /\ enhanced_plan' = after[1]
          /\ semantic_layer' = after[2]
    /\ pc' = IF Len(CallsNamed("compile")) + 1 < MaxCalls THEN "validated" ELSE "compiled"
    /\ UNCHANGED <<governance_limits, features, llm_selection, token_hits, validation,
                   executed, settings, database, query_result, retrieval, requests>>

NextRepeat == RepeatValidate \/ RepeatCompile

SpecRepeat == InitRepeat /\ [][NextRepeat]_vars

(* Properties of repeated calls, checked under SpecRepeat *)

\* every call of the function was given the inputs of its first call, and
\* two calls with equal inputs returned equal results
SameInputsSameResults(named) ==
    \A i, j \in DOMAIN named :
        /\ named[i].inputs = named[1].inputs
        /\ named[i].inputs = named[j].inputs => named[i].result = named[j].result

----------------------------------------------------------------------------
(* Direct calls of build_semantic_plan on features that carry time bounds, *)
(* a time range, or both                                                   *)

\* 'A TO B'
TimeRange(a, b) == a \o <<" ", "TO", " ">> \o b

EarlyJanuary == <<"2024", "-", "01", "-", "01">>

BuildTimeRanges == { <<>>, TimeRange(MidJanuary, EndOfMarch), TimeRange(EarlyJanuary, MidJanuary) }

\* features with a time_range key next to the keys of the extractor
BuildFeatureSet ==
    { [tokens |-> <<>>, metrics |-> <<>>, dimensions |-> <<>>, filters |-> f,
       time_start |-> time_start, time_end |-> time_end, query_text |-> q,
       time_range |-> time_range] :
          f \in { <<>>, << <<"area", " ", "=", " ", "'", "north", "'">> >> },
          time_start \in {<<>>, MidJanuary}, time_end \in {<<>>, EndOfMarch},
          q \in { <<>>, <<"2024", "-", "1", " ", "to", " ", "2024", "nian", "03">> },
          time_range \in BuildTimeRanges }

InitBuild ==
    /\ pc = "call"
    /\ semantic_layer \in {Layer, NoLayer}
    /\ governance_limits = [require_time_filter |-> FALSE]
    /\ features \in BuildFeatureSet
    /\ llm_selection = NoSelection
    /\ \E matches \in MatchLists, blocked \in {<<>>, <<BlockedIdNo>>} :
           token_hits = [matches |-> matches, blocked_matches |-> blocked]
    /\ enhanced_plan = EmptyPlan
    /\ validation = NoValidation
    /\ compiled = NotCompiled
    /\ executed = NotExecuted
    /\ settings = [db_configured |-> FALSE]
    /\ database = EmptyDatabase
    /\ query_result = NotQueried
    /\ retrieval = NoRetrieval
    /\ requests = <<>>
    /\ calls = <<>>

CallBuild ==
    /\ pc = "call"
    /\ enhanced_plan' = build_semantic_plan(features, token_hits, semantic_layer)
    /\ pc' = "built"
    /\ UNCHANGED <<semantic_layer, governance_limits, features, llm_selection, token_hits,
                   validation, compiled, executed, settings,
                   database, query_result, retrieval, requests, calls>>

NextBuild == CallBuild

SpecBuild == InitBuild /\ [][NextBuild]_vars

(* Properties of build_semantic_plan, checked under SpecBuild *)

StepBTimeRange == T("step_b_time_range")

\* the plan has a between filter with these two bounds and this source
HasBetween(first, last, source) ==
    \E i \in DOMAIN enhanced_plan.selected_filters :
        LET f == enhanced_plan.selected_filters[i]
        IN /\ f.op = T("between")
           /\ f.value = ListV(<<StrV(first), StrV(last)>>)
           /\ f.source = source

\* the two ends of 'A TO B'
RangeEnds(time_range) ==
    CHOOSE ends \in {<<EarlyJanuary, MidJanuary>>, <<MidJanuary, EndOfMarch>>} :
        time_range = TimeRange(ends[1], ends[2])

\* C18: build_semantic_plan derives the time filter with this priority: when
\* time_start and time_end are both non-empty it emits a between filter
\* [time_start, time_end] with source step_b_time_bounds and ignores
\* time_range; when both are empty and time_range is 'A TO B' it emits a
\* between filter [A, B] on the time field with source step_b_time_range.
C18_TimeBoundsThenTimeRange ==
    pc = "built" =>
        /\ (features.time_start # <<>> /\ features.time_end # <<>>)
               => /\ \E i \in DOMAIN enhanced_plan.selected_filters :
                         enhanced_plan.selected_filters[i].source = StepBTimeBounds
                  /\ \A i \in DOMAIN enhanced_plan.selected_filters :
                         enhanced_plan.selected_filters[i].source # StepBTimeRange
        /\ (features.time_start = <<>> /\ features.time_end = <<>>
              /\ features.time_range # <<>>)
               => HasBetween(RangeEnds(features.time_range)[1],
                             RangeEnds(features.time_range)[2], StepBTimeRange)

----------------------------------------------------------------------------
(* Sensitive fields in the statements of the pipeline, checked under Spec *)

\* the texts that name a sensitive field: its name, synonyms and expr
SensitiveNames ==
    UNION { UNION { {f.name, f.expr} \cup Range(f.synonyms) : f \in Range(e.sensitive_fields) }
              : e \in Range(Layer.entities) } \ {<<>>}

\* the text holds the one-unit name as a unit of its own, in any letter case
NamesSensitive(text) == \E i \in DOMAIN text : <<LowerUnit(text[i])>> \in SensitiveNames

\* the features name a sensitive field in tokens, metrics, dimensions or in a
\* free-text filter
FeaturesNameSensitive ==
    \/ \E key \in MatchKeys : \E i \in DOMAIN features[key] :
           _normalize(features[key][i]) \in SensitiveNames
    \/ \E i \in DOMAIN features.filters : NamesSensitive(features.filters[i])

\* C19: no SQL produced by the pipeline match -> merge -> validate -> compile
\* references a sensitive field of the catalog: whenever the features (tokens,
\* metrics, dimensions or free-text filters) name a sensitive field by one of
\* its aliases, either validation fails with BLOCKED_MATCH or the compiled SQL
\* contains no expression naming that field.
C19_NoSensitiveFieldInSql ==
    (pc = "compiled" /\ FeaturesNameSensitive)
        => \/ ~validation.ok /\ "BLOCKED_MATCH" \in Range(validation.error_codes)
           \/ ~NamesSensitive(compiled.sql)

----------------------------------------------------------------------------
(* The mandatory time filter, checked under SpecValidate *)

\* the canonical names of the time dimensions of the catalog, and the
\* calendar date that stands for the time field of a dataset without one
TimeFieldNames ==
    UNION { { Dotted(d.name, t.name) : t \in Range(d.time_dimensions) }
              : d \in Range(Layer.datasets) }
    \cup {CalendarBizDate}

IsTimeFilter(f) == f.is_dict /\ Strip(f.field) \in TimeFieldNames

HasTimeFilter == \E i \in DOMAIN enhanced_plan.selected_filters :
                     IsTimeFilter(enhanced_plan.selected_filters[i])

TimeFilterRequired == "TIME_FILTER_REQUIRED" \in Range(validation.error_codes)

\* C20 as stated: when require_time_filter is true and validation returns
\* ok = true, the plan contains at least one filter on a time dimension; a plan
\* whose only filters are on non-time fields is rejected with
\* TIME_FILTER_REQUIRED.
C20_TimeFilterOnTimeDimension ==
    (Validated /\ governance_limits.require_time_filter) =>
        /\ validation.ok => HasTimeFilter
        /\ (enhanced_plan.selected_filters # <<>> /\ ~HasTimeFilter
              /\ token_hits.blocked_matches = <<>>)
               => ~validation.ok /\ TimeFilterRequired

PlanHasSelection ==
    \/ enhanced_plan.selected_metrics # <<>>
    \/ enhanced_plan.selected_dimensions # <<>>
    \/ enhanced_plan.selected_dataset_candidates # <<>>

\* C20 amended: when require_time_filter is true and validation returns
\* ok = true, selected_filters is not empty; with no blocked candidate, a plan
\* with a selection is rejected with TIME_FILTER_REQUIRED exactly when
\* selected_filters is empty, whatever fields its filters are on.
C20_SomeFilterRequired ==
    (Validated /\ governance_limits.require_time_filter) =>
        /\ validation.ok => enhanced_plan.selected_filters # <<>>
        /\ (PlanHasSelection /\ token_hits.blocked_matches = <<>>)
               => (TimeFilterRequired <=> enhanced_plan.selected_filters = <<>>)

\* under require_time_filter a plan whose only filter is on a field that is
\* no time dimension has passed validation
C20_Witness ==
    /\ Validated
    /\ governance_limits.require_time_filter
    /\ validation.ok
    /\ enhanced_plan.selected_filters # <<>>
    /\ ~HasTimeFilter

----------------------------------------------------------------------------
(* Dimension scoping of merge_llm_selection_into_plan, checked under       *)
(* SpecMerge                                                               *)

\* the entities the primary dataset of the plan joins directly
PrimaryJoinEntities == { PrimaryDef.joins[i].entity : i \in DOMAIN PrimaryDef.joins }

\* C21: in the plan returned by merge_llm_selection_into_plan with a catalog
\* and a non-empty primary dataset, every selected dimension is owned by the
\* primary dataset or by an entity the primary dataset joins directly; a
\* candidate dimension of another dataset or of an entity the primary dataset
\* does not join is dropped.
C21_DimensionsOfPrimaryOrJoined ==
    (pc = "merged" /\ semantic_layer.present /\ PrimaryDataset # <<>>) =>
        \A d \in Range(enhanced_plan.selected_dimensions) :
            \/ Owner(d) = PrimaryDataset
            \/ Owner(d) \in PrimaryJoinEntities

(* Sanitization of the proposer's filters, checked under SpecMerge *)

\* the filters of the proposer that _sanitize_llm_filters lets through
SanitizedOfCall ==
    _sanitize_llm_filters(llm_selection.selected_filters, semantic_layer, PrimaryDataset)

\* the canonical names of the alias index of the primary dataset
AliasIndexNames ==
    LET alias_lookup == _build_field_alias_lookup(semantic_layer, PrimaryDataset)
    IN {alias_lookup[i][2] : i \in DOMAIN alias_lookup}

\* the operator of a filter as the sanitizer reads it
SanitizerOp(f) == Replace(Lower(Strip(f.op)), "_", " ")

AllowedOps == AllowedBinaryOps \cup UnaryOps

C23_BetweenAndInArity ==
    pc = "merged" =>
        \A f \in Range(enhanced_plan.selected_filters) :
            /\ (f.is_dict /\ Lower(Strip(f.op)) = T("between")) =>
                   (f.value.kind = "list" /\ Len(f.value.items) = 2)
            /\ (f.is_dict /\ Lower(Strip(f.op)) = T("in")) =>
                   (f.value.kind = "list" /\ f.value.items # <<>>)

(* The time-bounds filter of the merged plan, checked under SpecMerge *)

\* the time dimension the bounds of the request are put on
PrimaryTimeField == _resolve_time_filter_field(PrimaryDataset, semantic_layer)

\* the between filters of the plan on the primary time dimension
BetweenOnTimeField ==
    SelectSeq(enhanced_plan.selected_filters,
              LAMBDA f : /\ f.is_dict
                         /\ f.field = PrimaryTimeField
                         /\ Lower(Strip(f.op)) = T("between"))

\* [time_start, time_end], cut to the month when the time dimension is monthly
BoundsOfRequest ==
    LET grain == _resolve_time_dimension_grain(PrimaryDataset, semantic_layer)
    IN ListV(<< StrV(_normalize_time_bound_value(Strip(features.time_start), grain)),
                StrV(_normalize_time_bound_value(Strip(features.time_end), grain)) >>)

BothBounds == Strip(features.time_start) # <<>> /\ Strip(features.time_end) # <<>>

\* C24: when time_start and time_end are both non-empty the merged plan holds
\* exactly one between filter on the time dimension of the primary dataset,
\* its value is [time_start, time_end] (cut to YYYY-MM for a monthly time
\* dimension) and no filter parsed from free text on that time dimension
\* remains; when a bound is empty no time-bounds filter is added.
C24_OneTimeBoundsFilter ==
    pc = "merged" =>
        /\ BothBounds =>
               /\ Len(BetweenOnTimeField) = 1
               /\ BetweenOnTimeField[1].value = BoundsOfRequest
               /\ \A f \in Range(enhanced_plan.selected_filters) :
                      ~(f.is_dict /\ f.source = StepBFilters /\ f.field = PrimaryTimeField)
        /\ ~BothBounds =>
               \A f \in Range(enhanced_plan.selected_filters) :
                   ~(f.is_dict /\ f.source = StepBTimeBounds)

(* The join-path rule of validate_semantic_plan, checked under SpecJoinPath *)

\* the join lists a dataset of the catalog is given
JoinLists ==
    { <<>>,
      <<JoinDef(T("calendar"), T("s.biz_date = dim_calendar.biz_date"))>>,
      <<JoinDef(T("branch"), T("s.branch_id = dim_branch.branch_id"))>>,
      <<JoinDef(T("customer"), T("s.customer_id = dim_customer.id"))>> }

\* the catalog with the joins of sales and of complaints replaced
LayerWithJoins(sales_joins, complaints_joins) ==
    [Layer EXCEPT !.datasets = << [Datasets[1] EXCEPT !.joins = sales_joins],
                                  Datasets[2],
                                  [Datasets[3] EXCEPT !.joins = complaints_joins] >>]

JoinPathMetricLists ==
    { <<>>, << <<"sales", ".", "revenue">> >>,
      << <<"sales", ".", "revenue">>, <<"complaints", ".", "case_cnt">> >>,
      << <<"deposit_balance_daily", ".", "deposit_end_balance">>,
         <<"complaints", ".", "case_cnt">> >>,
      << <<"ghost_dataset", ".", "total">> >> }

JoinPathDimensionLists ==
    { <<>>, << <<"branch", ".", "region">> >>, << <<"other", ".", "region">> >>,
      << <<"deposit_balance_daily", ".", "biz_date">> >>, <<T("region")>> }

JoinPathDatasetLists ==
    { <<>>, <<T("sales")>>, <<T("complaints")>>, <<T("sales"), T("complaints")>>,
      <<T("sales"), T("deposit_balance_daily"), T("complaints")>>,
      <<T("complaints"), T("complaints")>>, <<T("sales"), T("ghost_dataset")>>,
      <<T("branch"), T("sales")>> }

InitJoinPath ==
    /\ pc = "call"
    /\ \E js \in JoinLists, jc \in JoinLists : semantic_layer = LayerWithJoins(js, jc)
    /\ governance_limits = [require_time_filter |-> FALSE]
    /\ features = NoFeatures
    /\ llm_selection = NoSelection
    /\ token_hits = [matches |-> <<>>, blocked_matches |-> <<>>]
    /\ \E m \in JoinPathMetricLists, d \in JoinPathDimensionLists,
          ds \in JoinPathDatasetLists :
           enhanced_plan = Plan(m, d, <<>>, ds, NoTimeAxis)
    /\ validation = NoValidation
    /\ compiled = NotCompiled
    /\ executed = NotExecuted
    /\ settings = [db_configured |-> FALSE]
    /\ database = EmptyDatabase
    /\ query_result = NotQueried
    /\ retrieval = NoRetrieval
    /\ requests = <<>>
    /\ calls = <<>>

SpecJoinPath == InitJoinPath /\ [][NextValidate]_vars

\* the owners of selected metrics and dimensions that are datasets of the
\* catalog, no entities and no dataset candidates
PrefixDatasets ==
    { Owner(n) : n \in { x \in Range(enhanced_plan.selected_metrics)
                                \cup Range(enhanced_plan.selected_dimensions) : HasDot(x) } }
    \cap ({ semantic_layer.datasets[i].name : i \in DOMAIN semantic_layer.datasets }
          \ { semantic_layer.entities[i].name : i \in DOMAIN semantic_layer.entities })

\* the involved datasets: the candidates as they are listed, then the prefixes
InvolvedDatasets == Range(enhanced_plan.selected_dataset_candidates) \cup PrefixDatasets

InvolvedCount ==
    Len(enhanced_plan.selected_dataset_candidates)
    + Cardinality(PrefixDatasets \ Range(enhanced_plan.selected_dataset_candidates))

\* the entities a dataset joins directly; none for a name that is no dataset
DirectJoinEntities(dataset_name) ==
    LET def == Lookup(semantic_layer.datasets, dataset_name, EmptyDataset)
    IN { def.joins[i].entity : i \in DOMAIN def.joins }

SharedJoinEntities ==
    { e \in UNION { DirectJoinEntities(d) : d \in InvolvedDatasets } :
          \A d \in InvolvedDatasets : e \in DirectJoinEntities(d) }

DottedFilters == { f \in PlanFilterSet : f.is_dict /\ HasDot(Strip(f.field)) }

\* C26: with no blocked candidate and a catalog, validate_semantic_plan reports
\* INVALID_CANONICAL_REF exactly when a selected metric is no metric name of the
\* catalog, or a selected dimension is no dimension, time-dimension or
\* entity-field name of the catalog, or a dotted filter field is the canonical
\* name of no catalog object (metric, dimension, time dimension or entity
\* field); a filter on an existing canonical name never triggers the code.
C26_InvalidCanonicalRefExactly ==
    (Validated /\ token_hits.blocked_matches = <<>> /\ semantic_layer.present) =>
        ( "INVALID_CANONICAL_REF" \in Range(validation.error_codes)
          <=> \/ \E m \in Range(enhanced_plan.selected_metrics) : m \notin CatalogMetricNames
              \/ \E d \in Range(enhanced_plan.selected_dimensions) :
                     d \notin CatalogDimensionNames
              \/ \E f \in DottedFilters :
                     Strip(f.field) \notin CatalogMetricNames \cup CatalogDimensionNames )

(* The WHERE clause of compile_sql_from_semantic_plan, checked under SpecValidate *)

\* what each filter of the plan renders to, <<>> for a filter that renders nothing
FilterPredicates ==
    LET lookup == _build_semantic_lookup(PrimaryDataset, semantic_layer)
    IN [i \in DOMAIN enhanced_plan.selected_filters |->
           WherePart(enhanced_plan.selected_filters[i], lookup)]

\* C27: for a plan that passed validation, compile_sql_from_semantic_plan
\* renders every filter of the plan as exactly one predicate of the WHERE
\* clause, joined by AND in plan order, for every operator of the filter model
\* and for raw expressions; no filter is left out of the SQL.
C27_EveryFilterRendered ==
    (pc = "compiled" /\ validation.ok /\ compiled.raised = "") =>
        /\ \A i \in DOMAIN FilterPredicates : FilterPredicates[i] # <<>>
        /\ enhanced_plan.selected_filters # <<>> =>
               LinesOf(CompiledLines, "WHERE ")
                   = << <<"WHERE ">> \o Join(FilterPredicates, <<" AND ">>) >>

(* Accumulation of the rules of validate_semantic_plan, checked under SpecValidate *)

\* the rule a code belongs to
RuleOf(code) ==
    CASE code = "BLOCKED_MATCH" -> 1
      [] code = "TIME_FILTER_REQUIRED" -> 2
      [] code = "TIME_AXIS_INCOMPLETE" -> 3
      [] code = "EMPTY_SELECTION" -> 4
      [] code = "MULTI_DATASET_NO_JOIN_PATH" -> 5
      [] code = "INVALID_CANONICAL_REF" -> 6
      [] code = "DATASET_MISMATCH" -> 7
      [] code \in {"INVALID_FILTER_SHAPE", "INVALID_FILTER_BETWEEN", "INVALID_FILTER_VALUE"} -> 8
      [] code = "NO_COMPILABLE_SELECT" -> 9
      [] OTHER -> 0

\* the codes of the rules 2..5 the plan violates, each rule taken by itself
ViolatedPlanRules ==
    LET plan == enhanced_plan
        selected_datasets == _collect_selected_datasets(plan, semantic_layer)
    IN (IF /\ governance_limits.require_time_filter
           /\ PlanHasSelection
           /\ plan.selected_filters = <<>>
        THEN {"TIME_FILTER_REQUIRED"} ELSE {})
       \cup (IF /\ plan.time_axis.has_time_filter
                /\ (plan.time_axis.start_date = <<>> \/ plan.time_axis.end_date = <<>>)
             THEN {"TIME_AXIS_INCOMPLETE"} ELSE {})
       \cup (IF plan.selected_metrics = <<>> /\ plan.selected_dimensions = <<>>
             THEN {"EMPTY_SELECTION"} ELSE {})
       \cup (IF /\ semantic_layer.present
                /\ Len(selected_datasets) > 1
                /\ ~_has_join_path(semantic_layer, selected_datasets)
             THEN {"MULTI_DATASET_NO_JOIN_PATH"} ELSE {})

\* the codes of the rules 6, 7 and 9, which read the catalog
ViolatedCatalogRules ==
    LET plan == enhanced_plan
        valid == _build_valid_canonical_sets(semantic_layer)
    IN IF ~semantic_layer.present THEN {}
       ELSE (IF \/ \E m \in Range(plan.selected_metrics) : m \notin valid[1]
                \/ \E d \in Range(plan.selected_dimensions) : d \notin valid[2]
                \/ InvalidFilterFields(plan.selected_filters, valid[2]) # <<>>
             THEN {"INVALID_CANONICAL_REF"} ELSE {})
            \cup (IF HasForeignSelection(plan, semantic_layer)
                  THEN {"DATASET_MISMATCH"} ELSE {})
            \cup (IF ~_has_compilable_select_item(plan, semantic_layer)
                  THEN {"NO_COMPILABLE_SELECT"} ELSE {})

\* the codes of rule 8, one filter at a time
ViolatedShapeRules == { FilterShapeCode(f) : f \in PlanFilterSet } \ {""}

\* error_codes lists every violated rule once, in rule order, and ok tells
\* whether it is empty
AccumulatesAllRules ==
    LET codes == validation.error_codes
    IN /\ Range(codes) = ViolatedPlanRules \cup ViolatedCatalogRules \cup ViolatedShapeRules
       /\ \A i, j \in DOMAIN codes : i < j =>
              (codes[i] # codes[j] /\ RuleOf(codes[i]) <= RuleOf(codes[j]))
       /\ validation.ok <=> codes = <<>>

\* C28 (as stated): whenever no candidate is blocked, validate_semantic_plan
\* evaluates every rule 2 to 9: error_codes holds the code of every violated
\* rule, each once, in rule order, and ok is true exactly when it is empty.
C28_AllRulesWithoutBlocked ==
    (Validated /\ token_hits.blocked_matches = <<>>) => AccumulatesAllRules

\* C28 (amended): this holds whenever no candidate is blocked and the call is
\* made with the catalog; without the catalog the rules 6 to 9 are not
\* evaluated.
C28_AllRulesWithCatalog ==
    (Validated /\ token_hits.blocked_matches = <<>> /\ semantic_layer.present)
        => AccumulatesAllRules

\* a plan that breaks the rules 2, 4 and 9 at once gets the three codes in
\* rule order; nothing stops at the first failing rule
C28_Witness ==
    /\ pc = "validated"
    /\ token_hits.blocked_matches = <<>>
    /\ semantic_layer.present
    /\ Len(validation.error_codes) >= 3
    /\ validation.error_codes[1] = "TIME_FILTER_REQUIRED"
    /\ validation.error_codes[Len(validation.error_codes)] = "NO_COMPILABLE_SELECT"
    /\ ~validation.ok

(* The calendar skeleton of compile_sql_from_semantic_plan, checked under SpecSkeleton *)

CalendarJoin(on) == JoinDef(T("calendar"), on)

BranchJoin == JoinDef(T("branch"), T("bal.branch_id = dim_branch.branch_id"))

CustomerJoin == JoinDef(T("customer"), T("bal.customer_id = dim_customer.id"))

\* the join lists the deposit dataset is given
SkeletonJoinLists ==
    { << CalendarJoin(T("bal.biz_date = dim_calendar.biz_date")), BranchJoin >>,
      << BranchJoin, CalendarJoin(T("bal.biz_date = dim_calendar.biz_date")), CustomerJoin >>,
      << CalendarJoin(T("bal.biz_date = dim_calendar.biz_date")) >>,
      << CalendarJoin(T("bal.biz_date = dim_calendar.biz_date")), CustomerJoin,
         CalendarJoin(T("bal.value_date = dim_calendar.biz_date")) >>,
      << BranchJoin >> }

\* the metric types the deposit balance metric is given
SkeletonMetricTypes ==
    { T("sum"), T("avg"), T("count"), T("count_distinct"), <<>>, T("max"), <<" ", "SUM">> }

DepositRate == <<"deposit_balance_daily", ".", "rate">>

\* the catalog with the joins and the first metric type of the deposit dataset replaced
LayerForSkeleton(joins, metric_type) ==
    [Layer EXCEPT !.datasets =
        << Datasets[1],
           [Datasets[2] EXCEPT !.joins = joins,
                               !.metrics = << [Datasets[2].metrics[1] EXCEPT !.type = metric_type],
                                              Datasets[2].metrics[2] >>],
           Datasets[3] >>]

SkeletonMetricLists ==
    { <<>>, <<DepositEndBalance>>, <<DepositRate>>, <<DepositEndBalance, DepositRate>> }

SkeletonDimensionLists ==
    { <<>>, <<DepositBizDate>>, << <<"branch", ".", "region">>, DepositBizDate >> }

InitSkeleton ==
    /\ pc = "call"
    /\ \E j \in SkeletonJoinLists, t \in SkeletonMetricTypes :
           semantic_layer = LayerForSkeleton(j, t)
    /\ governance_limits = [require_time_filter |-> FALSE]
    /\ features = NoFeatures
    /\ llm_selection = NoSelection
    /\ token_hits = [matches |-> <<>>, blocked_matches |-> <<>>]
    /\ \E m \in SkeletonMetricLists, d \in SkeletonDimensionLists,
          f \in {<<>>, <<BetweenJanuaryOn(DepositBizDate)>>},
          ds \in {<<T("deposit_balance_daily")>>, <<T("sales")>>} :
           enhanced_plan = Plan(m, d, f, ds, NoTimeAxis)
    /\ validation = NoValidation
    /\ compiled = NotCompiled
    /\ executed = NotExecuted
    /\ settings = [db_configured |-> FALSE]
    /\ database = EmptyDatabase
    /\ query_result = NotQueried
    /\ retrieval = NoRetrieval
    /\ requests = <<>>
    /\ calls = <<>>

SpecSkeleton == InitSkeleton /\ [][NextValidate]_vars

\* the joins of the primary dataset to the calendar entity, and the other ones
CalendarJoinsOfPrimary == SelectSeq(PrimaryDef.joins, LAMBDA j : j.entity = T("calendar"))

OtherJoinsOfPrimary == SelectSeq(PrimaryDef.joins, LAMBDA j : j.entity # T("calendar"))

\* LEFT JOIN <table of the entity> ON <condition>
JoinLineOf(j) ==
    <<"LEFT JOIN ">> \o Lookup(semantic_layer.entities, j.entity, EmptyEntity).table
        \o <<" ON ">> \o j.on

\* the definition of a selected metric in the primary dataset
MetricDefOf(canonical) ==
    PrimaryDef.metrics[CHOOSE i \in DOMAIN PrimaryDef.metrics :
                           Dotted(PrimaryDataset, PrimaryDef.metrics[i].name) = canonical]

\* the select item the skeleton asks for: an aggregate is zero-filled
SkeletonItemOf(canonical) ==
    LET def == MetricDefOf(canonical)
        kind == Lower(Strip(def.type))
        aggregate == _normalize_metric_expr(def.expr, kind)
    IN (IF kind \in AggregateTypes
        THEN <<"COALESCE(">> \o aggregate \o <<", 0)">>
        ELSE def.expr)
       \o <<" AS ">> \o SqlAlias(canonical)

\* the selected metrics the primary dataset defines with an expression
CompiledMetrics ==
    SelectSeq(enhanced_plan.selected_metrics,
              LAMBDA m : \E i \in DOMAIN PrimaryDef.metrics :
                             /\ Dotted(PrimaryDataset, PrimaryDef.metrics[i].name) = m
                             /\ PrimaryDef.metrics[i].expr # <<>>)

\* C29: when the calendar skeleton is applied the text reads FROM the calendar
\* table, then LEFT JOIN the from clause of the dataset ON the calendar join
\* condition, then every other join of the dataset once, in catalog order,
\* the calendar join not being repeated; every selected metric of kind sum,
\* avg, count or count_distinct is selected as COALESCE(<aggregate>, 0) and a
\* metric of another kind stays unwrapped.
C29_SkeletonShape ==
    (pc = "compiled" /\ compiled.raised = "" /\ SkeletonApplied) =>
        LET lines == CompiledLines
            joins == LinesOf(lines, "LEFT JOIN ")
            items == SplitBy(Tail(lines[1]), ", ")
            metric_items == SubSeq(items, Len(items) - Len(CompiledMetrics) + 1, Len(items))
        IN /\ lines[2] = <<"FROM ">>
                   \o Lookup(semantic_layer.entities, T("calendar"), EmptyEntity).table
           /\ \E i \in DOMAIN CalendarJoinsOfPrimary :
                  lines[3] = <<"LEFT JOIN ">> \o PrimaryDef.from \o <<" ON ">>
                                 \o CalendarJoinsOfPrimary[i].on
           /\ Tail(joins) = [i \in DOMAIN OtherJoinsOfPrimary |->
                                JoinLineOf(OtherJoinsOfPrimary[i])]
           /\ \A i \in 1..Len(joins) : lines[i + 2] = joins[i]
           /\ metric_items = [i \in DOMAIN CompiledMetrics |-> SkeletonItemOf(CompiledMetrics[i])]

\* the skeleton of a dataset that lists the branch join before the calendar
\* join and selects an averaged metric next to a plain one
C29_Witness ==
    /\ pc = "compiled"
    /\ compiled.raised = ""
    /\ SkeletonApplied
    /\ Len(OtherJoinsOfPrimary) = 2
    /\ PrimaryDef.joins[1].entity = T("branch")
    /\ PrimaryDef.metrics[1].type = T("avg")
    /\ enhanced_plan.selected_metrics = <<DepositEndBalance, DepositRate>>
    /\ "COALESCE(" \in Range(compiled.sql)

(* The candidate lists of match, checked under SpecMatch *)

\* no canonical name is listed twice
DistinctNames(candidates) ==
    \A i, j \in DOMAIN candidates :
        i # j => candidates[i].canonical_name # candidates[j].canonical_name

\* the list is the exact hits, in their order, followed by retrieved candidates
ExactThenRetrieved(candidates, exact) ==
    /\ Len(candidates) >= Len(exact)
    /\ SubSeq(candidates, 1, Len(exact)) = exact
    /\ \A i \in (Len(exact) + 1)..Len(candidates) : candidates[i].source # "exact"

\* the candidates match() retrieved, in the order the ranking gave them
RetrievedOfRequest ==
    LET query == semantic_query(features)
        entries == _build_entries_and_indexes(semantic_layer)
    IN _rerank(query, _semantic_retrieve(query, entries, retrieval.ranking), retrieval.results)

\* the names of list appear in the order they have in the source list
InOrderOf(list, source) ==
    \A i, j \in DOMAIN list :
        i < j => \E a, b \in DOMAIN source :
                     /\ a < b
                     /\ source[a].canonical_name = list[i].canonical_name
                     /\ source[b].canonical_name = list[j].canonical_name

\* C30: in the result of match, matches lists the exact hits first, in the
\* order they were found, followed by the retrieved candidates; no canonical
\* name is listed twice in matches or in blocked_matches; an exact hit is kept
\* in preference to a retrieved candidate of the same name; every candidate of
\* matches is allowed and every candidate of blocked_matches is not.
C30_MatchLists ==
    pc = "matched" =>
        /\ ExactThenRetrieved(token_hits.matches, ExactOfRequest[1])
        /\ ExactThenRetrieved(token_hits.blocked_matches, ExactOfRequest[2])
        /\ InOrderOf(SelectSeq(token_hits.matches, LAMBDA m : m.source # "exact"),
                     RetrievedOfRequest)
        /\ DistinctNames(token_hits.matches)
        /\ DistinctNames(token_hits.blocked_matches)
        /\ \A i \in DOMAIN token_hits.matches : token_hits.matches[i].allowed
        /\ \A i \in DOMAIN token_hits.blocked_matches : ~token_hits.blocked_matches[i].allowed

\* an exact hit whose name the ranking retrieved as well is listed once, as the
\* exact hit, before the candidates only the ranking found
C30_Witness ==
    /\ pc = "matched"
    /\ ExactOfRequest[1] # <<>>
    /\ \E i \in DOMAIN RetrievedOfRequest :
           RetrievedOfRequest[i].canonical_name = ExactOfRequest[1][1].canonical_name
    /\ token_hits.matches[1].source = "exact"
    /\ Len(token_hits.matches) > Len(ExactOfRequest[1])
    /\ token_hits.blocked_matches # <<>>

====
